---------------------------- MODULE Spec2Model ----------------------------
(***************************************************************************)
(* A model of SNAP's FASTQ ingestion (SNAPLib/FASTQ.cpp, SNAPLib/Read.h):  *)
(* boundary recovery, the sequential reader, the interleaved and two-file  *)
(* paired readers, and the choice of the supplier strategy.                *)
(*                                                                         *)
(* Bytes are one-character strings, a file is a sequence of bytes, and a   *)
(* pointer into the reader's buffer is a 0-based offset into the file.     *)
(***************************************************************************)
EXTENDS Integers, Sequences, FiniteSets, TLC

VARIABLES
    recs,       \* ghost: the records file 0 was written from
    recs1,      \* ghost: the records file 1 was written from (two-file input)
    file,       \* the bytes of file 0
    file1,      \* the bytes of file 1
    cuts,       \* cuts[i] .. cuts[i+1] is the byte range of partition i
    clipping,   \* ReaderContext::clipping
    rd,         \* the readers, one per partition
    exited,     \* soft_exit has ended the process
    gen,        \* the call of createPairedReadSupplierGenerator
    reads,      \* Read objects and the caller's memory they were given
    run         \* the aligner run: context, worker threads, cached index

fqVars == <<recs, recs1, file, file1, cuts, clipping, rd, exited>>
genVars == <<gen, reads, run>>
vars == <<recs, recs1, file, file1, cuts, clipping, rd, exited, gen, reads,
         run>>

(***************************************************************************)
(* Bounds of the model.                                                    *)
(***************************************************************************)
MaxRecs == 2
MaxParts == 2
MaxPairRecs == 3
MaxFileSize == 3

(***************************************************************************)
(* The bytes.                                                              *)
(***************************************************************************)
NL == "\n"
CR == "\r"
NUL == "NUL"
CtrlZ == "^Z"
NULLP == -1

Max2(a, b) == IF a >= b THEN a ELSE b
Min2(a, b) == IF a <= b THEN a ELSE b

\* buffer[p], for a buffer that is the file: the byte after the valid bytes
\* is the null the reader relies on.
At(f, p) == IF p >= 0 /\ p < Len(f) THEN f[p + 1] ELSE NUL

\* the n bytes from offset p
Bytes(f, p, n) == [k \in 1..n |-> At(f, p + k - 1)]

\* util::strnchr: the first c among the n bytes from s, or NULL
strnchr(f, s, c, n) ==
    LET hits == {p \in s..(s + n - 1) : At(f, p) = c}
    IN  IF hits = {} THEN NULLP
        ELSE CHOOSE p \in hits : \A q \in hits : p <= q

UpperBases == {"A", "C", "T", "G", "N", "U", "R", "Y", "K", "M", "S", "W",
               "B", "D", "H", "V", "X"}

ToLower(c) ==
    CASE c = "A" -> "a" [] c = "C" -> "c" [] c = "T" -> "t" [] c = "G" -> "g"
      [] c = "N" -> "n" [] c = "U" -> "u" [] c = "R" -> "r" [] c = "Y" -> "y"
      [] c = "K" -> "k" [] c = "M" -> "m" [] c = "S" -> "s" [] c = "W" -> "w"
      [] c = "B" -> "b" [] c = "D" -> "d" [] c = "H" -> "h" [] c = "V" -> "v"
      [] c = "X" -> "x" [] OTHER -> c

LowerBases == {ToLower(c) : c \in UpperBases}

IS_LOWER_CASE(c) == c \in LowerBases

TO_UPPER_CASE(c) ==
    IF c \in LowerBases THEN CHOOSE u \in UpperBases : ToLower(u) = c ELSE c

\* the printable characters '!' .. '~' that the model's files use
Printable == UpperBases \cup LowerBases \cup
             {"@", "+", "!", "#", "/", "1", "2", "3"}

\* a table that lets every character start every line
AnyStartingCharacter(k, c) == TRUE

\* isValidStartingCharacterForNextLine[k][c]
isValidStartingCharacterForNextLine(k, c) ==
    CASE k = 3 -> c = "@"
      [] k = 0 -> c \in UpperBases \cup LowerBases
      [] k = 1 -> c = "+"
      [] k = 2 -> c \in Printable
      [] OTHER -> FALSE


(***************************************************************************)
(* Read (Read.h): the fields the readers set and look at.                  *)
(***************************************************************************)
ClippingTypes == {"NoClipping", "ClipFront", "ClipBack", "ClipFrontAndBack"}

\* unsigned arithmetic wraps; the checker's integers are 32-bit signed, so the
\* wrap is modelled modulo 2^31
UMax == 2147483647
Wrap(x) == IF x < 0 THEN (x + UMax) + 1 ELSE x

\* The Read a caller passes before anything was parsed into it: Read() sets
\* neither idLength nor the lengths.
UninitRead ==
    [id |-> <<>>, unclippedData |-> <<>>, unclippedQuality |-> <<>>,
     unclippedLength |-> 0, dataLength |-> 0, frontClippedLength |-> 0,
     clippingState |-> "NoClipping", upcased |-> FALSE,
     originalFrontClipping |-> 0, originalBackClipping |-> 0]

\* Read::init(id, idLength, data, quality, dataLength)
ReadInit(i_id, i_data, i_quality) ==
    LET anyLowerCase == \E k \in 1..Len(i_data) : IS_LOWER_CASE(i_data[k])
    IN  [id |-> i_id,
         unclippedData |->
            IF anyLowerCase
            THEN [k \in 1..Len(i_data) |-> TO_UPPER_CASE(i_data[k])]
            ELSE i_data,
         unclippedQuality |-> i_quality,
         unclippedLength |-> Len(i_data),
         dataLength |-> Len(i_data),
         frontClippedLength |-> 0,
         clippingState |-> "NoClipping",
         upcased |-> anyLowerCase,
         originalFrontClipping |-> 0,
         originalBackClipping |-> 0]

\* quality[k] of the unclipped view (clip starts from data = unclippedData)
QualAt(r, k) ==
    IF k >= 0 /\ k < Len(r.unclippedQuality) THEN r.unclippedQuality[k + 1]
    ELSE NUL

RECURSIVE BackRun(_, _)
BackRun(r, len) ==
    IF len > 0 /\ QualAt(r, len - 1) = "#" THEN 1 + BackRun(r, len - 1) ELSE 0

\* a front loop that does not stop at dataLength
FrontRunPastEnd(r, front, len) ==
    CHOOSE n \in 0..r.unclippedLength :
        /\ \A k \in 0..(n - 1) : QualAt(r, k) = "#"
        /\ n = r.unclippedLength \/ QualAt(r, n) # "#"

RECURSIVE FrontRun(_, _, _)
FrontRun(r, front, len) ==
    IF front < len /\ QualAt(r, front) = "#" THEN FrontRun(r, front + 1, len)
    ELSE front

\* Read::clip(clipping, maintainOriginalClipping)
Clip(r, mode, maintainOriginalClipping) ==
    IF mode = r.clippingState THEN r
    ELSE
    LET back == mode \in {"ClipBack", "ClipFrontAndBack"}
        frnt == mode \in {"ClipFront", "ClipFrontAndBack"}
        backClipping == IF back THEN BackRun(r, r.unclippedLength) ELSE 0
        len1 == r.unclippedLength - backClipping
        len2 == IF back /\ maintainOriginalClipping
                        /\ backClipping < r.originalBackClipping
                THEN Wrap(len1 - (r.originalBackClipping - backClipping))
                ELSE len1
        front1 == IF frnt THEN FrontRun(r, 0, len2) ELSE 0
        front2 == IF frnt /\ maintainOriginalClipping
                  THEN Max2(front1, r.originalFrontClipping)
                  ELSE front1
    IN  [r EXCEPT !.dataLength = Wrap(len2 - front2),
                  !.frontClippedLength = front2,
                  !.clippingState = mode]

\* what a consumer sees of a read: getId, getData, getQuality
View(r) ==
    [id |-> r.id,
     data |-> [k \in 1..Min2(r.dataLength, Len(r.unclippedData)) |->
                  r.unclippedData[Min2(r.frontClippedLength + k,
                                       Len(r.unclippedData))]],
     quality |-> [k \in 1..Min2(r.dataLength, Len(r.unclippedQuality)) |->
                  r.unclippedQuality[Min2(r.frontClippedLength + k,
                                          Len(r.unclippedQuality))]]]

(***************************************************************************)
(* FASTQReader::skipPartialRecord.  buffer is the offset of the reader's   *)
(* cursor, validBytes the bytes from there to the end of the buffer.       *)
(***************************************************************************)
IsSkipBase(c) == c \in {"A", "C", "T", "G", "N", "a", "c", "t", "g"}

RECURSIVE ScanBases(_, _)
ScanBases(f, p) == IF IsSkipBase(At(f, p)) THEN ScanBases(f, p + 1) ELSE p

\* kind "found": the cursor advances to pos and the call returns true;
\* kind "none": it returns false and the cursor stays; kind "ub": the buffer
\* holds no newline and does not start with '@', so the first candidate is
\* NULL + 1 and the loop dereferences it.
skipPartialRecord(f, buffer, validBytes) ==
    LET Loop[firstLineCandidate \in Int] ==
            IF firstLineCandidate - buffer >= validBytes
            THEN [kind |-> "none", pos |-> buffer]
            ELSE
            LET newLine == strnchr(f, firstLineCandidate, NL,
                                   validBytes - (firstLineCandidate - buffer))
                secondLineCandidate == newLine + 1
            IN
            IF newLine = NULLP THEN [kind |-> "none", pos |-> buffer]
            ELSE IF At(f, firstLineCandidate) # "@"
            THEN Loop[secondLineCandidate]
            ELSE
            LET scanned == ScanBases(f, secondLineCandidate)
                thirdLineCandidate ==
                    IF At(f, scanned) = CR THEN scanned + 1 ELSE scanned
            IN
            IF At(f, thirdLineCandidate) # NL
            THEN Loop[secondLineCandidate]
            ELSE IF At(f, thirdLineCandidate + 1) # "+"
            THEN Loop[secondLineCandidate]
            ELSE [kind |-> "found", pos |-> firstLineCandidate]
        first == strnchr(f, buffer, NL, validBytes)
    IN  IF At(f, buffer) = "@" THEN Loop[buffer]
        ELSE IF first = NULLP THEN [kind |-> "ub", pos |-> buffer]
        ELSE Loop[first + 1]

(***************************************************************************)
(* FASTQReader::getReadFromBuffer.  The result is                         *)
(*   kind "read":  the read, and the bytes consumed;                       *)
(*   kind "ctrlz": the lone ^Z at end of file: returns 0, read untouched;  *)
(*   kind "fatal": soft_exit(1).                                           *)
(***************************************************************************)
nLinesPerFastqQuery == 4

\* the loop over the four lines: [kind, lines, scan], lines[i] the start and
\* the length (lineLengths[i]) of line i.  (A value bound by x \in {e} is
\* computed once, where a LET would compute it at every use.)
ReadLines(f, buffer, validBytes, eof) ==
    LET Line[i \in 0..nLinesPerFastqQuery, scan \in Int] ==
            IF i = nLinesPerFastqQuery
            THEN [kind |-> "ok", lines |-> <<>>, scan |-> scan]
            ELSE
            LET newLine == strnchr(f, scan, NL, validBytes - (scan - buffer))
                lineLen == newLine - scan
                line == [at |-> scan,
                         len |-> lineLen - (IF At(f, scan + lineLen - 1) = CR
                                            THEN 1 ELSE 0)]
            IN
            IF newLine = NULLP
            THEN IF validBytes - (scan - buffer) = 1 /\ At(f, scan) = CtrlZ
                    /\ eof
                 THEN [kind |-> "ctrlz", lines |-> <<>>, scan |-> scan]
                 ELSE [kind |-> "fatal", lines |-> <<>>, scan |-> scan]
            ELSE IF lineLen = 0
            THEN [kind |-> "fatal", lines |-> <<>>, scan |-> scan]
            ELSE IF ~isValidStartingCharacterForNextLine((i + 3) % 4,
                                                         At(f, scan))
            THEN [kind |-> "fatal", lines |-> <<>>, scan |-> scan]
            ELSE CHOOSE r \in
                   {IF rest.kind = "ok"
                    THEN [rest EXCEPT !.lines = <<line>> \o @]
                    ELSE rest :
                      rest \in {Line[i + 1,
                                     newLine + (IF At(f, newLine + 1) = CR
                                                THEN 2 ELSE 1)]}} : TRUE
    IN  Line[0, buffer]

getReadFromBuffer(f, buffer, validBytes, isEOF, ctx) ==
    LET Result(got) ==
            IF got.kind # "ok"
            THEN [kind |-> got.kind, consumed |-> 0, read |-> UninitRead]
            ELSE [kind |-> "read",
                  consumed |-> got.scan - buffer,
                  read |-> Clip(ReadInit(
                                  Bytes(f, got.lines[1].at + 1,
                                        got.lines[1].len - 1),
                                  Bytes(f, got.lines[2].at, got.lines[2].len),
                                  Bytes(f, got.lines[4].at, got.lines[2].len)),
                                ctx, FALSE)]
    IN  CHOOSE r \in {Result(got) :
                        got \in {ReadLines(f, buffer, validBytes, isEOF)}} : TRUE


(***************************************************************************)
(* The input files: a file is the concatenation of four-line records.      *)
(***************************************************************************)
LF == <<NL>>
CRLF == <<CR, NL>>

Rec(id, bases, plus, qual, eol) ==
    [id |-> id, bases |-> bases, plus |-> plus, qual |-> qual, eol |-> eol]

RecBytes(r) ==
    <<"@">> \o r.id \o r.eol \o r.bases \o r.eol \o
    <<"+">> \o r.plus \o r.eol \o r.qual \o r.eol

RECURSIVE FileOf(_)
FileOf(rs) == IF rs = <<>> THEN <<>> ELSE RecBytes(Head(rs)) \o FileOf(Tail(rs))

\* the offset of the first byte of record k (of the end of the file for
\* k = Len(rs) + 1)
StartOf(rs, k) == Len(FileOf(SubSeq(rs, 1, k - 1)))

RECURSIVE SeqsUpTo(_, _)
SeqsUpTo(S, n) ==
    IF n = 0 THEN {<<>>}
    ELSE LET shorter == SeqsUpTo(S, n - 1)
         IN  shorter \cup {Append(q, x) : q \in shorter, x \in S}

\* nondecreasing interior cut points
RECURSIVE Mids(_, _, _)
Mids(lo, hi, k) ==
    IF k = 0 THEN {<<>>}
    ELSE UNION {{<<a>> \o m : m \in Mids(a, hi, k - 1)} : a \in lo..hi}

\* the ways to cut L bytes into n contiguous half-open ranges
CutsOf(L, n) == {<<0>> \o m \o <<L>> : m \in Mids(0, L, n - 1)}

NParts == Len(cuts) - 1
Parts == 1..NParts

\* single-end records: plain; a quality line that starts with '@', a '+' line
\* that repeats the id and lowercase bases; an ambiguity code; an id that
\* holds '@'; CRLF line ends
FastqRecTypes ==
    {Rec(<<"r">>, <<"A", "C">>, <<>>, <<"!", "#">>, LF),
     Rec(<<"r">>, <<"a">>, <<"r">>, <<"@">>, LF),
     Rec(<<"r">>, <<"A", "R">>, <<>>, <<"!", "!">>, LF),
     Rec(<<"r", "@">>, <<"G">>, <<>>, <<"!">>, LF),
     Rec(<<"r">>, <<"C">>, <<>>, <<"!">>, CRLF)}

(***************************************************************************)
(* The byte source (DataReader) the readers consume: one batch that holds  *)
(* the file from the cursor to its end, so that the record that straddles  *)
(* the upper bound of the range can be read; data is on offer while the    *)
(* cursor is inside the range.                                             *)
(***************************************************************************)
DataReinit(startingOffset, amountOfFileToProcess) ==
    [cursor |-> startingOffset, stop |-> startingOffset + amountOfFileToProcess]

getData(f, d) == d.cursor < d.stop /\ d.cursor < Len(f)

validBytesOf(f, d) == Len(f) - d.cursor

advance(d, n) == [d EXCEPT !.cursor = @ + n]

\* the single batch is the last one: no further data, and it ends the file
nextBatch(d) == d

isEOF(f, d) == TRUE

(***************************************************************************)
(* FASTQReader::reinit and FASTQReader::getNextRead on one byte source.    *)
(***************************************************************************)
\* [d, skip]: skip is "n/a" when boundary recovery was not run, else what it
\* returned
FQReinit(f, startingOffset, amountOfFileToProcess) ==
    LET d == DataReinit(startingOffset, amountOfFileToProcess) IN
    IF ~getData(f, d) THEN [d |-> d, skip |-> "n/a"]
    ELSE IF startingOffset # 0
    THEN CHOOSE r \in
           {IF sk.kind = "found"
            THEN [d |-> advance(d, sk.pos - d.cursor), skip |-> "found"]
            ELSE [d |-> d, skip |-> sk.kind] :
              sk \in {skipPartialRecord(f, d.cursor, validBytesOf(f, d))}} : TRUE
    ELSE [d |-> d, skip |-> "n/a"]

\* [ret, d, read]: ret is "true", "false" or "fatal"; readToUpdate is the
\* caller's Read object as it is before the call
\* a getNextRead that answers false to a record it cannot parse
FQGetNextReadFalseOnError(f, d, ctx, readToUpdate) ==
    LET d2 == IF getData(f, d) THEN d ELSE nextBatch(d) IN
    IF ~getData(f, d2)
    THEN [ret |-> "false", d |-> d2, read |-> readToUpdate]
    ELSE
    CHOOSE r \in
      {CASE got.kind = "fatal" ->
              [ret |-> "false", d |-> d2, read |-> readToUpdate]
         [] got.kind = "ctrlz" ->
              [ret |-> "true", d |-> advance(d2, 0), read |-> readToUpdate]
         [] OTHER ->
              [ret |-> "true", d |-> advance(d2, got.consumed),
               read |-> got.read] :
         got \in {getReadFromBuffer(f, d2.cursor, validBytesOf(f, d2),
                                    isEOF(f, d2), ctx)}} : TRUE

FQGetNextRead(f, d, ctx, readToUpdate) ==
    LET d2 == IF getData(f, d) THEN d ELSE nextBatch(d) IN
    IF ~getData(f, d2)
    THEN [ret |-> "false", d |-> d2, read |-> readToUpdate]
    ELSE
    CHOOSE r \in
      {CASE got.kind = "fatal" ->
              [ret |-> "fatal", d |-> d2, read |-> readToUpdate]
         [] got.kind = "ctrlz" ->
              [ret |-> "true", d |-> advance(d2, 0), read |-> readToUpdate]
         [] OTHER ->
              [ret |-> "true", d |-> advance(d2, got.consumed),
               read |-> got.read] :
         got \in {getReadFromBuffer(f, d2.cursor, validBytesOf(f, d2),
                                    isEOF(f, d2), ctx)}} : TRUE

(***************************************************************************)
(* The readers.  A reader is created by the thread that owns the partition *)
(* and then asked for reads until it returns false.                        *)
(***************************************************************************)
NoData == [cursor |-> 0, stop |-> 0]

NewReader ==
    [pc |-> "new",          \* "new", "open", "done" or "fatal"
     d |-> NoData,          \* the byte source of file 0
     d1 |-> NoData,         \* the byte source of file 1 (two-file input)
     out |-> <<>>,          \* what the consumer was handed, in order
     skip |-> "n/a",        \* what boundary recovery returned in reinit
     skip1 |-> "n/a",
     peekAt |-> -1,         \* interleaved: where reinit parsed its first read
     before |-> -1,         \* the cursor when the last call began
     before1 |-> -1,        \* the same for file 1
     nBefore |-> 0,         \* Len(out) when the last call began
     lastRet |-> "none"]    \* what the last getNextRead(Pair) returned

\* the Read object the consumer passes: it keeps what the last call left
LastRead(r) == IF r.out = <<>> THEN UninitRead ELSE r.out[Len(r.out)]

\* FASTQReader::create for partition i of file 0
Create(i) ==
    /\ ~exited
    /\ rd[i].pc = "new"
    /\ \E re \in {FQReinit(file, cuts[i], cuts[i + 1] - cuts[i])} :
       \/ /\ re.skip # "ub"
          /\ rd' = [rd EXCEPT ![i].pc = "open", ![i].d = re.d,
                              ![i].skip = re.skip]
          /\ UNCHANGED exited
       \/ /\ re.skip = "ub"
          /\ \/ /\ rd' = [rd EXCEPT ![i].pc = "fatal", ![i].d = re.d,
                                    ![i].skip = "ub"]
                /\ exited' = TRUE
             \/ /\ rd' = [rd EXCEPT ![i].pc = "open", ![i].d = re.d,
                                    ![i].skip = "none"]
                /\ UNCHANGED exited
    /\ UNCHANGED <<recs, recs1, file, file1, cuts, clipping>>
    /\ UNCHANGED genVars

\* one call of FASTQReader::getNextRead by the owner of partition i
GetNextRead(i) ==
    /\ ~exited
    /\ rd[i].pc = "open"
    /\ \E g \in {FQGetNextRead(file, rd[i].d, clipping, LastRead(rd[i]))} :
       /\ rd' = [rd EXCEPT
                   ![i].pc = CASE g.ret = "fatal" -> "fatal"
                               [] g.ret = "false" -> "done"
                               [] OTHER -> "open",
                   ![i].d = g.d,
                   ![i].before = rd[i].d.cursor,
                   ![i].nBefore = Len(rd[i].out),
                   ![i].lastRet = g.ret,
                   ![i].out = IF g.ret = "true" THEN Append(@, g.read) ELSE @]
       /\ exited' = (g.ret = "fatal")
    /\ UNCHANGED <<recs, recs1, file, file1, cuts, clipping>>
    /\ UNCHANGED genVars

NoGen == [pc |-> "idle"]

\* no Read object is under test
NoReads == <<>>

\* no aligner run was started
NoRun == <<>>

InitFASTQ ==
    /\ recs \in SeqsUpTo(FastqRecTypes, MaxRecs)
    /\ recs1 = <<>>
    /\ file = FileOf(recs)
    /\ file1 = <<>>
    /\ \E n \in 1..MaxParts : cuts \in CutsOf(Len(file), n)
    /\ clipping \in {"NoClipping", "ClipBack"}
    /\ rd = [i \in Parts |-> NewReader]
    /\ exited = FALSE
    /\ gen = NoGen
    /\ reads = NoReads
    /\ run = NoRun

NextFASTQ ==
    \/ \E i \in Parts : Create(i)
    \/ \E i \in Parts : GetNextRead(i)

SpecFASTQ == InitFASTQ /\ [][NextFASTQ]_vars


(***************************************************************************)
(* What is stated of the range-split single-end readers.                   *)
(***************************************************************************)
\* every read one sequential reader yields from cursor d on, in order
RECURSIVE SequentialReads(_, _, _, _)
SequentialReads(f, d, ctx, prev) ==
    LET g == FQGetNextRead(f, d, ctx, prev) IN
    IF g.ret = "true" /\ g.d.cursor > d.cursor
    THEN <<View(g.read)>> \o SequentialReads(f, g.d, ctx, g.read)
    ELSE <<>>

RECURSIVE ConcatOut(_)
ConcatOut(i) ==
    IF i > NParts THEN <<>>
    ELSE [k \in 1..Len(rd[i].out) |-> View(rd[i].out[k])] \o ConcatOut(i + 1)

RunOver == exited \/ \A i \in Parts : rd[i].pc = "done"

\* C1: when the run of the N range-split readers is over, it has not ended
\* fatally and the reads of the partitions, concatenated in partition order,
\* are exactly the reads of one sequential reader started at offset 0.
C1_PartitionsYieldSequentialReads ==
    RunOver =>
        /\ ~exited
        /\ ConcatOut(1) =
             SequentialReads(file, DataReinit(0, Len(file)), clipping, UninitRead)

\* the record that holds offset p, and the first full record at or after p
RecordAt(rs, p) ==
    CHOOSE k \in 1..Len(rs) : StartOf(rs, k) <= p /\ p < StartOf(rs, k + 1)

NextFullRecord(rs, p) ==
    IF StartOf(rs, RecordAt(rs, p)) = p THEN RecordAt(rs, p)
    ELSE RecordAt(rs, p) + 1

\* reader i has run boundary recovery in reinit and has not been asked for a
\* read yet
JustRecovered(i) ==
    /\ rd[i].pc = "open" /\ rd[i].lastRet = "none"
    /\ rd[i].skip \in {"found", "none"}

\* C2: boundary recovery on a buffer that begins inside a record moves the
\* cursor to the first byte of the next full record, and reports none only
\* when no full record follows in the buffer.
C2_RecoveryFindsNextRecord ==
    \A i \in Parts :
        JustRecovered(i) =>
            LET nxt == NextFullRecord(recs, cuts[i]) IN
            IF nxt <= Len(recs)
            THEN rd[i].skip = "found" /\ rd[i].d.cursor = StartOf(recs, nxt)
            ELSE rd[i].skip = "none" /\ rd[i].d.cursor = cuts[i]

\* the offset after the line that starts at p, or NULLP when the buffer ends
\* before the line does
LineAfter(f, p) ==
    LET nl == strnchr(f, p, NL, Len(f) - p) IN
    IF nl = NULLP THEN NULLP ELSE nl + 1

\* the line at p holds only supported base symbols, up to a newline that a
\* carriage return may precede
RECURSIVE AllSupportedBases(_, _)
AllSupportedBases(f, p) ==
    IF At(f, p) \in UpperBases \cup LowerBases THEN AllSupportedBases(f, p + 1)
    ELSE \/ At(f, p) = NL
         \/ At(f, p) = CR /\ At(f, p + 1) = NL

\* the acceptance test as it is stated: the line after the candidate is a
\* line of supported base symbols and the line after that begins with '+'
StatedAccept(f, c) ==
    LET second == LineAfter(f, c) IN
    /\ second # NULLP
    /\ AllSupportedBases(f, second)
    /\ LineAfter(f, second) # NULLP
    /\ At(f, LineAfter(f, second)) = "+"

\* the first candidate, from c on, that the stated test accepts
RECURSIVE FirstStated(_, _)
FirstStated(f, c) ==
    IF c = NULLP \/ c >= Len(f) THEN NULLP
    ELSE IF StatedAccept(f, c) THEN c
    ELSE FirstStated(f, LineAfter(f, c))

FirstCandidate(f, buffer) ==
    IF At(f, buffer) = "@" THEN buffer ELSE LineAfter(f, buffer)

\* C3: boundary recovery accepts a candidate line exactly when the line after
\* it is a line of supported base symbols (ambiguity codes and both cases
\* included) ended by a newline, and the line after that begins with '+':
\* the cursor ends on the first candidate that passes this test, and none is
\* reported when no candidate passes it.
C3_AcceptsExactlyBaseLineThenPlus ==
    \A i \in Parts :
        JustRecovered(i) =>
            LET c == FirstStated(file, FirstCandidate(file, cuts[i])) IN
            IF c # NULLP
            THEN rd[i].skip = "found" /\ rd[i].d.cursor = c
            ELSE rd[i].skip = "none"

\* C4: a partition in which boundary recovery found no record start yields no
\* reads and ends normally: its cursor is not moved, its getNextRead returns
\* false, and it never ends the run fatally.
C4_NoBoundaryYieldsNoReads ==
    \A i \in Parts :
        rd[i].skip = "none" =>
            /\ rd[i].d.cursor = cuts[i]
            /\ rd[i].pc # "fatal"
            /\ rd[i].out = <<>>
            /\ rd[i].lastRet \in {"none", "false"}


(***************************************************************************)
(* PairedInterleavedFASTQReader.                                           *)
(***************************************************************************)
\* the last two bytes of a read's id, or <<>> when the id is shorter
IdTail(r) ==
    IF Len(r.id) < 2 THEN <<>> ELSE SubSeq(r.id, Len(r.id) - 1, Len(r.id))

\* the id does not end in '/' followed by one of the digits
BadSuffix(read, digits) ==
    \/ Len(read.id) < 2
    \/ IdTail(read)[1] # "/"
    \/ IdTail(read)[2] \notin digits

\* a reinit that never takes its first read for a second mate
IsSecondMateNever(read) == FALSE

\* the first read of the range is the second half of a pair
IsSecondMate(read) == IdTail(read)[2] = "2"

\* PairedInterleavedFASTQReader::reinit.  [kind, d, skip, peekAt]: kind is
\* "ok" (returned), "fatal" (soft_exit) or "ub" (the id of a Read that was
\* never initialized is looked at); peekAt is the offset of the first read
\* it parsed, -1 when it returned before parsing one.
InterleavedReinit(f, startingOffset, amountOfFileToProcess, ctx) ==
    LET \* after the orphan /2 was skipped: the next read must be /1
        Second(seen, d2) ==
            IF ~getData(f, d2) THEN [seen EXCEPT !.kind = "fatal", !.d = d2]
            ELSE CHOOSE r \in
              {IF got2.kind = "fatal" \/ got2.kind = "ctrlz"
               THEN [seen EXCEPT !.kind = "fatal", !.d = d2]
               ELSE IF BadSuffix(got2.read, {"1"})
               THEN [seen EXCEPT !.kind = "fatal", !.d = d2]
               ELSE [seen EXCEPT !.d = d2] :
                 got2 \in {getReadFromBuffer(f, d2.cursor, validBytesOf(f, d2),
                                             isEOF(f, d2), ctx)}} : TRUE
        \* the first read of the buffer
        First(seen, got) ==
            IF got.kind = "fatal" THEN [seen EXCEPT !.kind = "fatal"]
            ELSE IF got.kind = "ctrlz" THEN [seen EXCEPT !.kind = "ub"]
            ELSE IF BadSuffix(got.read, {"1", "2"})
            THEN [seen EXCEPT !.kind = "fatal"]
            ELSE IF IsSecondMate(got.read)
            THEN Second(seen, advance(seen.d, got.consumed))
            ELSE seen
        After(re) ==
            LET quit == [kind |-> "ok", d |-> re.d, skip |-> re.skip,
                         peekAt |-> -1]
            IN
            IF re.skip = "ub" THEN [quit EXCEPT !.kind = "ub"]
            ELSE IF ~getData(f, DataReinit(startingOffset,
                                           amountOfFileToProcess))
            THEN quit
            ELSE IF startingOffset # 0 /\ re.skip # "found" THEN quit
            ELSE IF ~getData(f, re.d) THEN quit
            ELSE CHOOSE r \in
              {First([quit EXCEPT !.peekAt = re.d.cursor], got) :
                 got \in {getReadFromBuffer(f, re.d.cursor,
                                            validBytesOf(f, re.d),
                                            isEOF(f, re.d), ctx)}} : TRUE
    IN  CHOOSE r \in
          {After(re) :
             re \in {FQReinit(f, startingOffset, amountOfFileToProcess)}} : TRUE

\* a validation that looks at the first id only
PairIdsOkFirstOnly(read0, read1) == IdTail(read0) = <<"/", "1">>

\* the validation of the two ids in getNextReadPair
PairIdsOk(read0, read1) ==
    IdTail(read0) = <<"/", "1">> /\ IdTail(read1) = <<"/", "2">>

\* a reader that never notices that the first read was the last one
IsLastReadNever(bytesConsumed, validBytes) == FALSE

\* the first read took every valid byte: an odd number of reads
IsLastRead(bytesConsumed, validBytes) == bytesConsumed = validBytes

\* PairedInterleavedFASTQReader::getNextReadPair.  [ret, d, read0, read1];
\* r0 and r1 are the caller's Read objects as they are before the call.
InterleavedGetNextReadPair(f, d, ctx, r0, r1) ==
    LET d2 == IF getData(f, d) THEN d ELSE nextBatch(d)
        validBytes == validBytesOf(f, d2)
        res == [ret |-> "false", d |-> d2, read0 |-> r0, read1 |-> r1]
        Two(got0, read0, got1) ==
            LET read1 == IF got1.kind = "read" THEN got1.read ELSE r1
                both == [res EXCEPT !.read0 = read0, !.read1 = read1]
            IN
            IF got1.kind = "fatal" THEN [both EXCEPT !.ret = "fatal"]
            ELSE IF ~PairIdsOk(read0, read1)
            THEN [both EXCEPT !.ret = "fatal"]
            ELSE [both EXCEPT !.ret = "true",
                              !.d = advance(d2, got0.consumed + got1.consumed)]
        One(got0) ==
            LET read0 == IF got0.kind = "read" THEN got0.read ELSE r0
                bytesConsumed == got0.consumed
            IN
            IF got0.kind = "fatal" THEN [res EXCEPT !.ret = "fatal"]
            ELSE IF IsLastRead(bytesConsumed, validBytes)
            THEN [res EXCEPT !.read0 = read0]
            ELSE CHOOSE r \in
              {Two(got0, read0, got1) :
                 got1 \in {getReadFromBuffer(f, d2.cursor + bytesConsumed,
                                             validBytes - bytesConsumed,
                                             isEOF(f, d2), ctx)}} : TRUE
    IN
    IF ~getData(f, d2) THEN res
    ELSE CHOOSE r \in
      {One(got0) :
         got0 \in {getReadFromBuffer(f, d2.cursor, validBytes,
                                     isEOF(f, d2), ctx)}} : TRUE

\* the two Read objects the consumer of pairs passes
LastPair(r) ==
    IF r.out = <<>> THEN <<UninitRead, UninitRead>> ELSE r.out[Len(r.out)]

\* PairedInterleavedFASTQReader::create for partition i
CreateInterleaved(i) ==
    /\ ~exited
    /\ rd[i].pc = "new"
    /\ \E re \in {InterleavedReinit(file, cuts[i], cuts[i + 1] - cuts[i],
                                    clipping)} :
       \/ /\ re.kind = "ok"
          /\ rd' = [rd EXCEPT ![i].pc = "open", ![i].d = re.d,
                              ![i].skip = re.skip, ![i].peekAt = re.peekAt]
          /\ UNCHANGED exited
       \/ /\ re.kind = "fatal"
          /\ rd' = [rd EXCEPT ![i].pc = "fatal", ![i].d = re.d,
                              ![i].skip = re.skip, ![i].peekAt = re.peekAt]
          /\ exited' = TRUE
       \/ /\ re.kind = "ub"
          /\ \/ /\ rd' = [rd EXCEPT ![i].pc = "fatal", ![i].d = re.d,
                                    ![i].skip = re.skip,
                                    ![i].peekAt = re.peekAt]
                /\ exited' = TRUE
             \/ /\ rd' = [rd EXCEPT ![i].pc = "open", ![i].d = re.d,
                                    ![i].skip = IF re.skip = "ub" THEN "none"
                                                ELSE re.skip,
                                    ![i].peekAt = re.peekAt]
                /\ UNCHANGED exited
    /\ UNCHANGED <<recs, recs1, file, file1, cuts, clipping>>
    /\ UNCHANGED genVars

\* one call of PairedInterleavedFASTQReader::getNextReadPair
GetNextReadPairInterleaved(i) ==
    /\ ~exited
    /\ rd[i].pc = "open"
    /\ \E g \in {InterleavedGetNextReadPair(file, rd[i].d, clipping,
                                            LastPair(rd[i])[1],
                                            LastPair(rd[i])[2])} :
       /\ rd' = [rd EXCEPT
                   ![i].pc = CASE g.ret = "fatal" -> "fatal"
                               [] g.ret = "false" -> "done"
                               [] OTHER -> "open",
                   ![i].d = g.d,
                   ![i].before = rd[i].d.cursor,
                   ![i].nBefore = Len(rd[i].out),
                   ![i].lastRet = g.ret,
                   ![i].out = IF g.ret = "true"
                              THEN Append(@, <<g.read0, g.read1>>) ELSE @]
       /\ exited' = (g.ret = "fatal")
    /\ UNCHANGED <<recs, recs1, file, file1, cuts, clipping>>
    /\ UNCHANGED genVars

\* interleaved records: the two mates of a pair, and a record whose id has
\* no /1 or /2
PairRecTypes ==
    {Rec(<<"a", "/", "1">>, <<"A">>, <<>>, <<"!">>, LF),
     Rec(<<"a", "/", "2">>, <<"c">>, <<>>, <<"#">>, LF),
     Rec(<<"a">>, <<"G">>, <<>>, <<"!">>, LF)}

InitInterleaved ==
    /\ recs \in SeqsUpTo(PairRecTypes, MaxPairRecs)
    /\ recs1 = <<>>
    /\ file = FileOf(recs)
    /\ file1 = <<>>
    /\ \E n \in 1..MaxParts : cuts \in CutsOf(Len(file), n)
    /\ clipping \in {"NoClipping", "ClipBack"}
    /\ rd = [i \in Parts |-> NewReader]
    /\ exited = FALSE
    /\ gen = NoGen
    /\ reads = NoReads
    /\ run = NoRun

NextInterleaved ==
    \/ \E i \in Parts : CreateInterleaved(i)
    \/ \E i \in Parts : GetNextReadPairInterleaved(i)

SpecInterleaved == InitInterleaved /\ [][NextInterleaved]_vars


(***************************************************************************)
(* What is stated of the interleaved readers.                              *)
(***************************************************************************)
GhostTail(rec) ==
    IF Len(rec.id) < 2 THEN <<>> ELSE SubSeq(rec.id, Len(rec.id) - 1, Len(rec.id))

Slash1 == <<"/", "1">>
Slash2 == <<"/", "2">>

\* the read is the record, with its bases in upper case
Matches(read, rec) ==
    /\ read.id = rec.id
    /\ read.unclippedData = [k \in 1..Len(rec.bases) |-> TO_UPPER_CASE(rec.bases[k])]
    /\ read.unclippedQuality = rec.qual

\* reinit of reader i parsed a first read, and no pair was asked for yet
Peeked(i) == rd[i].peekAt >= 0 /\ rd[i].lastRet = "none"

\* C5: in reinit, the first record after boundary recovery must end in /1 or
\* /2, else the run ends fatally; a /2 record is discarded (the cursor moves
\* past exactly that record) and the record after it must end in /1, else
\* the run ends fatally; on a /1 record the cursor stays and nothing is
\* discarded.
C5_ReinitDropsOrphanMate ==
    \A i \in Parts :
        Peeked(i) =>
            LET k == RecordAt(recs, rd[i].peekAt)
                tail == GhostTail(recs[k])
            IN
            /\ rd[i].peekAt = StartOf(recs, k)
            /\ rd[i].pc \in {"open", "fatal"}
            /\ tail \notin {Slash1, Slash2} => rd[i].pc = "fatal"
            /\ tail = Slash1 =>
                   rd[i].pc = "open" /\ rd[i].d.cursor = rd[i].peekAt
            /\ tail = Slash2 =>
                   /\ rd[i].d.cursor = StartOf(recs, k + 1)
                   /\ rd[i].pc = "open" =>
                          k + 1 <= Len(recs) /\ GhostTail(recs[k + 1]) = Slash1

C5_OrphanDropped ==
    \E i \in Parts :
        /\ Peeked(i) /\ rd[i].pc = "open" /\ cuts[i] # 0
        /\ GhostTail(recs[RecordAt(recs, rd[i].peekAt)]) = Slash2
        /\ rd[i].d.cursor > rd[i].peekAt

\* C6: a getNextReadPair that returns true has consumed exactly the two
\* records at the cursor, returned them in order with ids ending in /1 and
\* /2, and moved the cursor past both; two records with any other suffixes
\* end the run fatally, and a fatal call returns no pair.
C6_PairIsTwoConsecutiveRecords ==
    \A i \in Parts :
        /\ rd[i].lastRet = "true" =>
               LET k == RecordAt(recs, rd[i].before)
                   pair == rd[i].out[Len(rd[i].out)]
               IN
               /\ rd[i].before = StartOf(recs, k)
               /\ k + 1 <= Len(recs)
               /\ Len(rd[i].out) = rd[i].nBefore + 1
               /\ Matches(pair[1], recs[k]) /\ Matches(pair[2], recs[k + 1])
               /\ IdTail(pair[1]) = Slash1 /\ IdTail(pair[2]) = Slash2
               /\ rd[i].d.cursor = StartOf(recs, k + 2)
        /\ rd[i].lastRet = "fatal" => Len(rd[i].out) = rd[i].nBefore
        /\ \A k \in 1..(Len(recs) - 1) :
               ( /\ rd[i].lastRet # "none"
                 /\ rd[i].before = StartOf(recs, k)
                 /\ rd[i].before < rd[i].d.stop
                 /\ ~(GhostTail(recs[k]) = Slash1 /\ GhostTail(recs[k + 1]) = Slash2) )
               => rd[i].lastRet = "fatal" /\ rd[i].pc = "fatal"

C6_PairReturned ==
    \E i \in Parts : rd[i].lastRet = "true" /\ Len(rd[i].out) = 1 /\ cuts[i] # 0

\* the pairs of a file of well-formed pairs
WellFormedPairs(rs) ==
    /\ Len(rs) % 2 = 0
    /\ \A k \in 1..Len(rs) :
           GhostTail(rs[k]) = IF k % 2 = 1 THEN Slash1 ELSE Slash2

RECURSIVE ConcatPairs(_)
ConcatPairs(i) == IF i > NParts THEN <<>> ELSE rd[i].out \o ConcatPairs(i + 1)

\* C7: for a file of well-formed /1,/2 pairs, when the run of the N
\* range-split interleaved readers is over it has not ended fatally and the
\* pairs of the partitions, in partition order, are exactly the pairs of the
\* file, each once.
C7_PartitionsYieldFilePairs ==
    (WellFormedPairs(recs) /\ RunOver) =>
        /\ ~exited
        /\ Len(ConcatPairs(1)) * 2 = Len(recs)
        /\ \A n \in 1..Len(ConcatPairs(1)) :
               /\ Matches(ConcatPairs(1)[n][1], recs[2 * n - 1])
               /\ Matches(ConcatPairs(1)[n][2], recs[2 * n])

OneRecordLeft(i) ==
    /\ rd[i].lastRet # "none"
    /\ recs # <<>>
    /\ rd[i].before = StartOf(recs, Len(recs))
    /\ rd[i].before < rd[i].d.stop

RespondedDifferentlyNever(worked, other) == FALSE

\* "reads of both ends responded differently"
RespondedDifferently(worked, other) == other # worked

\* PairedFASTQReader::getNextReadPair.  [ret, d, d1, read0, read1]
PairedGetNextReadPair(f0, f1, d, d1, ctx, r0, r1) ==
    LET Both(g0, g1) ==
            IF g1.ret = "fatal"
            THEN [ret |-> "fatal", d |-> g0.d, d1 |-> g1.d,
                  read0 |-> g0.read, read1 |-> r1]
            ELSE IF RespondedDifferently(g0.ret, g1.ret)
            THEN [ret |-> "fatal", d |-> g0.d, d1 |-> g1.d,
                  read0 |-> g0.read, read1 |-> g1.read]
            ELSE [ret |-> g0.ret, d |-> g0.d, d1 |-> g1.d,
                  read0 |-> g0.read, read1 |-> g1.read]
        First(g0) ==
            IF g0.ret = "fatal"
            THEN [ret |-> "fatal", d |-> g0.d, d1 |-> d1,
                  read0 |-> r0, read1 |-> r1]
            ELSE CHOOSE r \in
                   {Both(g0, g1) : g1 \in {FQGetNextRead(f1, d1, ctx, r1)}} : TRUE
    IN  CHOOSE r \in {First(g0) : g0 \in {FQGetNextRead(f0, d, ctx, r0)}} : TRUE

\* PairedFASTQReader::create for partition i: both readers get the same range
CreatePaired(i) ==
    /\ ~exited
    /\ rd[i].pc = "new"
    /\ \E re0 \in {FQReinit(file, cuts[i], cuts[i + 1] - cuts[i])},
          re1 \in {FQReinit(file1, cuts[i], cuts[i + 1] - cuts[i])} :
       \/ /\ rd' = [rd EXCEPT ![i].pc = "open",
                              ![i].d = re0.d, ![i].d1 = re1.d,
                              ![i].skip = IF re0.skip = "ub" THEN "none"
                                          ELSE re0.skip,
                              ![i].skip1 = IF re1.skip = "ub" THEN "none"
                                           ELSE re1.skip]
          /\ UNCHANGED exited
       \/ /\ re0.skip = "ub" \/ re1.skip = "ub"
          /\ rd' = [rd EXCEPT ![i].pc = "fatal",
                              ![i].d = re0.d, ![i].d1 = re1.d,
                              ![i].skip = re0.skip, ![i].skip1 = re1.skip]
          /\ exited' = TRUE
    /\ UNCHANGED <<recs, recs1, file, file1, cuts, clipping>>
    /\ UNCHANGED genVars

\* one call of PairedFASTQReader::getNextReadPair
GetNextReadPairPaired(i) ==
    /\ ~exited
    /\ rd[i].pc = "open"
    /\ \E g \in {PairedGetNextReadPair(file, file1, rd[i].d, rd[i].d1, clipping,
                                       LastPair(rd[i])[1],
                                       LastPair(rd[i])[2])} :
       /\ rd' = [rd EXCEPT
                   ![i].pc = CASE g.ret = "fatal" -> "fatal"
                               [] g.ret = "false" -> "done"
                               [] OTHER -> "open",
                   ![i].d = g.d,
                   ![i].d1 = g.d1,
                   ![i].before = rd[i].d.cursor,
                   ![i].before1 = rd[i].d1.cursor,
                   ![i].nBefore = Len(rd[i].out),
                   ![i].lastRet = g.ret,
                   ![i].out = IF g.ret = "true"
                              THEN Append(@, <<g.read0, g.read1>>) ELSE @]
       /\ exited' = (g.ret = "fatal")
    /\ UNCHANGED <<recs, recs1, file, file1, cuts, clipping>>
    /\ UNCHANGED genVars

\* the records of the two files: a short and a long one
TwoFileRecTypes ==
    {Rec(<<"r">>, <<"A">>, <<>>, <<"!">>, LF),
     Rec(<<"r">>, <<"C", "g">>, <<>>, <<"!", "#">>, LF)}

InitPaired ==
    /\ recs \in SeqsUpTo(TwoFileRecTypes, MaxRecs)
    /\ recs1 \in SeqsUpTo(TwoFileRecTypes, MaxRecs)
    /\ file = FileOf(recs)
    /\ file1 = FileOf(recs1)
    /\ \E n \in 1..MaxParts :
           cuts \in CutsOf(Max2(Len(file), Len(file1)), n)
    /\ clipping \in {"NoClipping", "ClipBack"}
    /\ rd = [i \in Parts |-> NewReader]
    /\ exited = FALSE
    /\ gen = NoGen
    /\ reads = NoReads
    /\ run = NoRun

NextPaired ==
    \/ \E i \in Parts : CreatePaired(i)
    \/ \E i \in Parts : GetNextReadPairPaired(i)

SpecPaired == InitPaired /\ [][NextPaired]_vars

\* the byte source had data at cursor c
HadData(f, c, stop) == c < stop /\ c < Len(f)

\* C9: a getNextReadPair of the two-file reader that returns true has read
\* one record from each file; one that returns false found both files at
\* end-of-input in that call; when exactly one of the two is exhausted the
\* call ends the run fatally and returns no pair; so a reader of the whole
\* files ends normally only when both files hold the same number of records,
\* all of them returned.
C9_BothFilesOrFatal ==
    \A i \in Parts :
        LET r == rd[i] IN
        /\ r.lastRet = "true" =>
               /\ HadData(file, r.before, r.d.stop)
               /\ HadData(file1, r.before1, r.d1.stop)
               /\ Len(r.out) = r.nBefore + 1
               /\ LET k == RecordAt(recs, r.before)
                      k1 == RecordAt(recs1, r.before1)
                  IN  /\ r.before = StartOf(recs, k)
                      /\ r.before1 = StartOf(recs1, k1)
                      /\ Matches(r.out[Len(r.out)][1], recs[k])
                      /\ Matches(r.out[Len(r.out)][2], recs1[k1])
                      /\ r.d.cursor = StartOf(recs, k + 1)
                      /\ r.d1.cursor = StartOf(recs1, k1 + 1)
        /\ r.lastRet = "false" =>
               /\ ~HadData(file, r.before, r.d.stop)
               /\ ~HadData(file1, r.before1, r.d1.stop)
               /\ r.d.cursor = r.before /\ r.d1.cursor = r.before1
               /\ Len(r.out) = r.nBefore
        /\ ( /\ r.lastRet # "none"
             /\ HadData(file, r.before, r.d.stop)
                  # HadData(file1, r.before1, r.d1.stop) )
           => r.pc = "fatal" /\ Len(r.out) = r.nBefore
        /\ (NParts = 1 /\ r.pc = "done") =>
               Len(r.out) = Len(recs) /\ Len(recs1) = Len(recs)

\* files of unequal record counts: the run ends fatally at the call after
\* the last record of the shorter file
C9_UnequalCountsFatal ==
    \E i \in Parts :
        /\ NParts = 1 /\ Len(recs) # Len(recs1)
        /\ rd[i].pc = "fatal" /\ rd[i].lastRet = "fatal"
        /\ Len(rd[i].out) = Min2(Len(recs), Len(recs1))
        /\ Len(rd[i].out) >= 1


(***************************************************************************)
(* PairedFASTQReader::createPairedReadSupplierGenerator: the choice of     *)
(* the supplier strategy for a pair of FASTQ files.  The inputs are the    *)
(* two file sizes, the gzip flag and whether each file can be opened.      *)
(***************************************************************************)
\* a decision that needs both a size difference and compression
UseQueueOnlyIfBoth(size0, size1, gzip) == size0 # size1 /\ gzip

\* the decision: "whether the files are the same size", or compressed
UseQueue(size0, size1, gzip) == size0 # size1 \/ gzip

\* the whole function; log is the order of its steps
RunGenerator(size0, size1, gzip, initOk0, initOk1) ==
    IF UseQueue(size0, size1, gzip)
    THEN LET dataSupplier == IF gzip THEN "GzipDefault" ELSE "Default" IN
         IF ~initOk0
         THEN [strategy |-> "queue", dataSupplier |-> dataSupplier,
               log |-> <<"reader1">>, result |-> "none", exit |-> TRUE]
         ELSE IF ~initOk1
         THEN [strategy |-> "queue", dataSupplier |-> dataSupplier,
               log |-> <<"reader1", "reader2">>, result |-> "none",
               exit |-> TRUE]
         ELSE [strategy |-> "queue", dataSupplier |-> dataSupplier,
               log |-> <<"reader1", "reader2", "queue", "startReaders",
                         "return">>,
               result |-> "queue", exit |-> FALSE]
    ELSE [strategy |-> "range", dataSupplier |-> "none",
          log |-> <<"rangeSplitter", "return">>,
          result |-> "range", exit |-> FALSE]

CreatePairedReadSupplierGenerator ==
    /\ ~exited
    /\ gen.pc = "call"
    /\ \E g \in {RunGenerator(gen.size0, gen.size1, gen.gzip,
                              gen.initOk0, gen.initOk1)} :
       /\ gen' = [gen EXCEPT !.pc = IF g.exit THEN "exited" ELSE "returned",
                             !.strategy = g.strategy,
                             !.dataSupplier = g.dataSupplier,
                             !.log = g.log,
                             !.result = g.result]
       /\ exited' = g.exit
    /\ UNCHANGED <<recs, recs1, file, file1, cuts, clipping, rd, reads, run>>

InitGen ==
    /\ recs = <<>> /\ recs1 = <<>>
    /\ file = <<>> /\ file1 = <<>>
    /\ cuts = <<0, 0>>
    /\ clipping = "ClipBack"
    /\ rd = [i \in Parts |-> NewReader]
    /\ exited = FALSE
    /\ gen \in [pc : {"call"},
                size0 : 0..MaxFileSize, size1 : 0..MaxFileSize,
                gzip : BOOLEAN, initOk0 : BOOLEAN, initOk1 : BOOLEAN,
                strategy : {"none"}, dataSupplier : {"none"},
                log : {<<>>}, result : {"none"}]
    /\ reads = NoReads
    /\ run = NoRun

NextGen == CreatePairedReadSupplierGenerator

SpecGen == InitGen /\ [][NextGen]_vars

\* position of step e in the log, 0 when absent
LogPos(e) ==
    IF \E k \in 1..Len(gen.log) : gen.log[k] = e
    THEN CHOOSE k \in 1..Len(gen.log) : gen.log[k] = e
    ELSE 0

\* C10: once createPairedReadSupplierGenerator has run, the range-splitting
\* strategy was selected iff the input is not gzip-compressed and the two
\* files have the same byte length; otherwise the queue strategy was
\* selected, and a queue generator that is returned had its readers created
\* and started before the return.
C10_StrategyChosenBySizeAndGzip ==
    gen.pc \in {"returned", "exited"} =>
        /\ gen.strategy \in {"range", "queue"}
        /\ gen.strategy = "range" <=> (~gen.gzip /\ gen.size0 = gen.size1)
        /\ gen.pc = "returned" => gen.result = gen.strategy
        /\ gen.result = "queue" =>
               /\ 0 < LogPos("reader1")
               /\ LogPos("reader1") < LogPos("reader2")
               /\ LogPos("reader2") < LogPos("startReaders")
               /\ LogPos("startReaders") < LogPos("return")
        /\ gen.result = "range" => LogPos("startReaders") = 0

\* equal sizes but compressed: the queue generator is returned, started
C10_GzipEqualSizesUsesQueue ==
    /\ gen.pc = "returned"
    /\ gen.gzip /\ gen.size0 = gen.size1 /\ gen.size0 > 0
    /\ gen.result = "queue"
    /\ LogPos("startReaders") > 0


(***************************************************************************)
(* The supplier generators of the three FASTQ input kinds.  A file name    *)
(* "-" is the standard stream; the command line allows it for at most one  *)
(* of the two files of a pair.  QueryFileSize of "-" is whatever the       *)
(* platform answers: any size.                                             *)
(***************************************************************************)
InputKinds == {"single", "paired", "interleaved"}

\* the choice of the DataSupplier in the queue branches
QueueSupplier(isStdin, gzip) ==
    IF isStdin THEN (IF gzip THEN "GzipStdio" ELSE "Stdio") ELSE "GzipDefault"

\* the steps of a queue branch with one reader
OneReaderQueue(dataSupplier, amount, initOk) ==
    IF ~initOk
    THEN [strategy |-> "queue", dataSupplier |-> dataSupplier,
          amount |-> amount, log |-> <<"reader1">>, result |-> "none",
          exit |-> TRUE]
    ELSE [strategy |-> "queue", dataSupplier |-> dataSupplier,
          amount |-> amount,
          log |-> <<"reader1", "queue", "startReaders", "return">>,
          result |-> "queue", exit |-> FALSE]

RangeSplitter ==
    [strategy |-> "range", dataSupplier |-> "none", amount |-> 0,
     log |-> <<"rangeSplitter", "return">>, result |-> "range",
     exit |-> FALSE]

\* FASTQReader::createReadSupplierGenerator
RunSingleGenerator(isStdin, size, gzip, initOk) ==
    IF ~gzip /\ ~isStdin
    THEN RangeSplitter
    ELSE OneReaderQueue(QueueSupplier(isStdin, gzip),
                        IF isStdin THEN 0 ELSE size, initOk)

\* PairedInterleavedFASTQReader::createPairedReadSupplierGenerator; the
\* amount is (stdin ? 0 : QueryFileSize(fileName)) with stdin the C stream,
\* which is never null
RunInterleavedGenerator(isStdin, size, gzip, initOk) ==
    IF gzip \/ isStdin
    THEN OneReaderQueue(QueueSupplier(isStdin, gzip), 0, initOk)
    ELSE RangeSplitter

GenReturn(g) ==
    /\ gen' = [gen EXCEPT !.pc = IF g.exit THEN "exited" ELSE "returned",
                          !.strategy = g.strategy,
                          !.dataSupplier = g.dataSupplier,
                          !.amount = g.amount,
                          !.log = g.log,
                          !.result = g.result]
    /\ exited' = g.exit
    /\ UNCHANGED <<recs, recs1, file, file1, cuts, clipping, rd, reads, run>>

CreateReadSupplierGenerator ==
    /\ ~exited
    /\ gen.pc = "call" /\ gen.kind = "single"
    /\ \E g \in {RunSingleGenerator(gen.stdin0, gen.size0, gen.gzip,
                                    gen.initOk0)} : GenReturn(g)

CreatePairedReadSupplierGeneratorTwoFiles ==
    /\ gen.kind = "paired"
    /\ CreatePairedReadSupplierGenerator

CreatePairedReadSupplierGeneratorInterleaved ==
    /\ ~exited
    /\ gen.pc = "call" /\ gen.kind = "interleaved"
    /\ \E g \in {RunInterleavedGenerator(gen.stdin0, gen.size0, gen.gzip,
                                         gen.initOk0)} : GenReturn(g)

InitSupplier ==
    /\ recs = <<>> /\ recs1 = <<>>
    /\ file = <<>> /\ file1 = <<>>
    /\ cuts = <<0, 0>>
    /\ clipping = "ClipBack"
    /\ rd = [i \in Parts |-> NewReader]
    /\ exited = FALSE
    /\ gen \in {g \in [pc : {"call"}, kind : InputKinds,
                       stdin0 : BOOLEAN, stdin1 : BOOLEAN,
                       size0 : 0..MaxFileSize, size1 : 0..MaxFileSize,
                       gzip : BOOLEAN, initOk0 : BOOLEAN, initOk1 : BOOLEAN,
                       strategy : {"none"}, dataSupplier : {"none"},
                       amount : {0}, log : {<<>>}, result : {"none"}] :
                  /\ ~(g.stdin0 /\ g.stdin1)
                  /\ g.kind # "paired" =>
                         ~g.stdin1 /\ g.size1 = 0 /\ g.initOk1}
    /\ reads = NoReads
    /\ run = NoRun

NextSupplier ==
    \/ CreateReadSupplierGenerator
    \/ CreatePairedReadSupplierGeneratorTwoFiles
    \/ CreatePairedReadSupplierGeneratorInterleaved

SpecSupplier == InitSupplier /\ [][NextSupplier]_vars

\* C11: for each of the three FASTQ input kinds, once the generator
\* function has run, an input that is the standard stream or is compressed
\* got the queue strategy, and range-splitting was selected only for a
\* plain uncompressed file that is not the standard stream.
C11_StdinOrGzipUsesQueue ==
    gen.pc \in {"returned", "exited"} =>
        /\ (gen.gzip \/ gen.stdin0 \/ gen.stdin1) => gen.strategy = "queue"
        /\ gen.strategy = "range" =>
               ~gen.gzip /\ ~gen.stdin0 /\ ~gen.stdin1


(***************************************************************************)
(* The parser on arbitrary buffers: the buffer is a sequence of lines,     *)
(* well-formed or not, and an optional unterminated rest.                  *)
(***************************************************************************)
MaxLines == 4

\* the contents of a line
LineChoices ==
    {<<>>, <<"@", "r">>, <<"+">>, <<"A">>, <<"A", "C">>, <<"A", "e">>,
     <<"!", "!">>, <<" ">>}

\* an unterminated rest after the last line
RestChoices == {<<>>, <<"A">>}

RECURSIVE JoinLines(_)
JoinLines(ls) ==
    IF ls = <<>> THEN <<>> ELSE Head(ls) \o LF \o JoinLines(Tail(ls))

\* one call of getReadFromBuffer on the first validBytes bytes of the buffer
ParseBuffer ==
    /\ ~exited
    /\ gen.pc = "call"
    /\ \E validBytes \in 0..Len(file) :
       \E eof \in IF validBytes < Len(file) THEN {FALSE} ELSE BOOLEAN :
       \E got \in {getReadFromBuffer(file, 0, validBytes, eof, clipping)} :
          /\ gen' = [pc |-> "parsed", validBytes |-> validBytes,
                     eof |-> eof, got |-> got]
          /\ exited' = (got.kind = "fatal")
    /\ UNCHANGED <<recs, recs1, file, file1, cuts, clipping, rd, reads, run>>

InitBuffer ==
    /\ recs = <<>> /\ recs1 = <<>>
    /\ \E ls \in SeqsUpTo(LineChoices, MaxLines) :
       \E rest \in RestChoices : file = JoinLines(ls) \o rest
    /\ file1 = <<>>
    /\ cuts = <<0, Len(file)>>
    /\ clipping = "NoClipping"
    /\ rd = [i \in Parts |-> NewReader]
    /\ exited = FALSE
    /\ gen = [pc |-> "call"]
    /\ reads = NoReads
    /\ run = NoRun

NextBuffer == ParseBuffer

SpecBuffer == InitBuffer /\ [][NextBuffer]_vars

\* the sequential reader on such a file
InitParse ==
    /\ recs = <<>> /\ recs1 = <<>>
    /\ \E ls \in SeqsUpTo(LineChoices, MaxLines) :
       \E rest \in RestChoices : file = JoinLines(ls) \o rest
    /\ file1 = <<>>
    /\ cuts = <<0, Len(file)>>
    /\ clipping = "NoClipping"
    /\ rd = [i \in Parts |-> NewReader]
    /\ exited = FALSE
    /\ gen = NoGen
    /\ reads = NoReads
    /\ run = NoRun

SpecParse == InitParse /\ [][NextFASTQ]_vars

\* the newlines among the first v bytes, and the lines they end
NLs(v) == {p \in 0..(v - 1) : At(file, p) = NL}

NthNL(v, n) == CHOOSE p \in NLs(v) : Cardinality({q \in NLs(v) : q < p}) = n - 1

LineStart(v, i) == IF i = 1 THEN 0 ELSE NthNL(v, i - 1) + 1

LineOf(v, i) == Bytes(file, LineStart(v, i), NthNL(v, i) - LineStart(v, i))

\* the alphabet of the first character of line i of a record
StartAlphabet(i) ==
    CASE i = 1 -> {"@"}
      [] i = 2 -> UpperBases \cup LowerBases
      [] i = 3 -> {"+"}
      [] OTHER -> Printable

BadLine(l, i) == l = <<>> \/ l[1] \notin StartAlphabet(i)

\* how many of the four lines are terminated among the first v bytes
TerminatedLines(v) == Min2(nLinesPerFastqQuery, Cardinality(NLs(v)))

\* C12: a parse of a buffer in which one of the four lines is empty or
\* begins with a character outside the alphabet of its position ('@' for
\* line 1, a base for line 2, '+' for line 3, a printable character for
\* line 4), or in which one of the four lines has no newline while the
\* source is not at end-of-input, ends the run fatally: no read, no advance.
C12_MalformedRecordIsFatal ==
    gen.pc = "parsed" =>
        LET v == gen.validBytes IN
        ( \/ \E i \in 1..TerminatedLines(v) : BadLine(LineOf(v, i), i)
          \/ TerminatedLines(v) < nLinesPerFastqQuery /\ ~gen.eof )
        => /\ gen.got.kind = "fatal"
           /\ gen.got.consumed = 0
           /\ exited

\* two good lines, then a third that does not begin with '+'
C12_ThirdLineNotPlus ==
    /\ gen.pc = "parsed"
    /\ TerminatedLines(gen.validBytes) = nLinesPerFastqQuery
    /\ ~BadLine(LineOf(gen.validBytes, 1), 1)
    /\ ~BadLine(LineOf(gen.validBytes, 2), 2)
    /\ LineOf(gen.validBytes, 3) # <<>>
    /\ LineOf(gen.validBytes, 3)[1] # "+"
    /\ gen.got.kind = "fatal"


RECURSIVE AllIn(_, _)
AllIn(l, S) == l = <<>> \/ (Head(l) \in S /\ AllIn(Tail(l), S))

\* C13: a parse that yields a read has a second line made of supported
\* base symbols only and a fourth line exactly as long as the second; a
\* record with a longer or shorter quality line, or with an unsupported
\* symbol after the first base, is never yielded.
C13_BasesAndQualityLengthChecked ==
    (gen.pc = "parsed" /\ gen.got.kind = "read") =>
        /\ AllIn(LineOf(gen.validBytes, 2), UpperBases \cup LowerBases)
        /\ Len(LineOf(gen.validBytes, 4)) = Len(LineOf(gen.validBytes, 2))


MaxReadLen == 2

NullPtr == [base |-> "null", off |-> 0]

Ptr(base, off) == [base |-> base, off |-> off]

PtrAdd(p, n) == [p EXCEPT !.off = @ + n]

\* the localBuffer region of object k
Local(k) == IF k = 1 THEN "local1" ELSE "local2"

\* the bytes of a region
Region(st, base) ==
    CASE base = "extData" -> st.ext.data
      [] base = "extQuality" -> st.ext.quality
      [] base = "local1" -> st.obj[1].localBuffer
      [] base = "local2" -> st.obj[2].localBuffer
      [] OTHER -> <<>>

\* p[i]; a byte outside every region reads as NUL
ByteAt(st, p, i) ==
    LET mem == Region(st, p.base)
        idx == p.off + i
    IN  IF idx >= 0 /\ idx < Len(mem) THEN mem[idx + 1] ELSE NUL

Span(st, p, n) == [i \in 1..n |-> ByteAt(st, p, i - 1)]

\* buf with bytes written at offset off
WriteAt(buf, off, bytes) ==
    [i \in 1..Max2(Len(buf), off + Len(bytes)) |->
        IF i > off /\ i <= off + Len(bytes) THEN bytes[i - off]
        ELSE IF i <= Len(buf) THEN buf[i] ELSE NUL]

\* Read::Read(): nothing was parsed into the object yet
NewRead ==
    [inited |-> FALSE,
     data |-> NullPtr, unclippedData |-> NullPtr,
     quality |-> NullPtr, unclippedQuality |-> NullPtr,
     externalData |-> NullPtr, externalQuality |-> NullPtr,
     upcaseForwardRead |-> NullPtr, rcData |-> NullPtr, rcQuality |-> NullPtr,
     dataLength |-> 0, unclippedLength |-> 0, frontClippedLength |-> 0,
     clippingState |-> "NoClipping", currentReadDirection |-> "FORWARD",
     originalFrontClipping |-> 0, originalBackClipping |-> 0,
     originalFrontHardClipping |-> 0, originalBackHardClipping |-> 0,
     localBuffer |-> <<>>, localBufferAllocationOffset |-> 0]

\* an init that leaves the cached reverse complement of the record the
\* object held before
Read_initKeepCache(st, k, i_originalFrontClipping, i_originalBackClipping, i_originalFrontHardClipping, i_originalBackHardClipping) ==
    LET o == st.obj[k]
        i_data == st.ext.data
        i_dataLength == Len(i_data)
        anyLowerCase == \E i \in 1..i_dataLength : IS_LOWER_CASE(i_data[i])
        plain ==
            [o EXCEPT
               !.inited = TRUE,
               !.data = Ptr("extData", 0),
               !.unclippedData = Ptr("extData", 0),
               !.externalData = Ptr("extData", 0),
               !.quality = Ptr("extQuality", 0),
               !.unclippedQuality = Ptr("extQuality", 0),
               !.externalQuality = Ptr("extQuality", 0),
               !.dataLength = i_dataLength,
               !.unclippedLength = i_dataLength,
               !.frontClippedLength = 0,
               !.clippingState = "NoClipping",
               !.originalFrontClipping = i_originalFrontClipping,
               !.originalBackClipping = i_originalBackClipping,
               !.originalFrontHardClipping = i_originalFrontHardClipping,
               !.originalBackHardClipping = i_originalBackHardClipping,
               !.currentReadDirection = "FORWARD",
               !.localBufferAllocationOffset = 0,
               !.upcaseForwardRead = NullPtr]
    IN  IF anyLowerCase
        THEN [plain EXCEPT
                !.upcaseForwardRead = Ptr(Local(k), 0),
                !.localBufferAllocationOffset = i_dataLength,
                !.localBuffer =
                    WriteAt(o.localBuffer, 0,
                            [i \in 1..i_dataLength |->
                                TO_UPPER_CASE(i_data[i])]),
                !.unclippedData = Ptr(Local(k), 0),
                !.data = Ptr(Local(k), 0)]
        ELSE plain

\* Read::init with the caller's spans reads.ext
Read_init(st, k, i_originalFrontClipping, i_originalBackClipping, i_originalFrontHardClipping, i_originalBackHardClipping) ==
    LET o == st.obj[k]
        i_data == st.ext.data
        i_dataLength == Len(i_data)
        anyLowerCase == \E i \in 1..i_dataLength : IS_LOWER_CASE(i_data[i])
        plain ==
            [o EXCEPT
               !.inited = TRUE,
               !.data = Ptr("extData", 0),
               !.unclippedData = Ptr("extData", 0),
               !.externalData = Ptr("extData", 0),
               !.quality = Ptr("extQuality", 0),
               !.unclippedQuality = Ptr("extQuality", 0),
               !.externalQuality = Ptr("extQuality", 0),
               !.dataLength = i_dataLength,
               !.unclippedLength = i_dataLength,
               !.frontClippedLength = 0,
               !.clippingState = "NoClipping",
               !.originalFrontClipping = i_originalFrontClipping,
               !.originalBackClipping = i_originalBackClipping,
               !.originalFrontHardClipping = i_originalFrontHardClipping,
               !.originalBackHardClipping = i_originalBackHardClipping,
               !.currentReadDirection = "FORWARD",
               !.localBufferAllocationOffset = 0,
               !.upcaseForwardRead = NullPtr,
               !.rcData = NullPtr,
               !.rcQuality = NullPtr]
    IN  IF anyLowerCase
        THEN [plain EXCEPT
                !.upcaseForwardRead = Ptr(Local(k), 0),
                !.localBufferAllocationOffset = i_dataLength,
                !.localBuffer =
                    WriteAt(o.localBuffer, 0,
                            [i \in 1..i_dataLength |->
                                TO_UPPER_CASE(i_data[i])]),
                !.unclippedData = Ptr(Local(k), 0),
                !.data = Ptr(Local(k), 0)]
        ELSE plain

\* a clip that neither looks at the clipping state nor reverts to the
\* unclipped read before it trims
Read_clipCompounding(st, k, mode, maintainOriginalClipping) ==
    LET o == st.obj[k]
        q == Span(st, o.unclippedQuality, o.unclippedLength)
        back == IF mode \in {"ClipBack", "ClipFrontAndBack"}
                THEN BackRun([unclippedQuality |-> q], o.unclippedLength)
                ELSE 0
        len == Wrap(o.dataLength - back)
    IN  [o EXCEPT !.dataLength = len, !.clippingState = mode]

\* Read::clip on object k
Read_clip(st, k, mode, maintainOriginalClipping) ==
    LET o == st.obj[k] IN
    IF mode = o.clippingState THEN o
    ELSE
    CHOOSE r \in
      {[o EXCEPT !.dataLength = c.dataLength,
                 !.frontClippedLength = c.frontClippedLength,
                 !.data = PtrAdd(o.unclippedData, c.frontClippedLength),
                 !.quality = PtrAdd(o.unclippedQuality, c.frontClippedLength),
                 !.clippingState = c.clippingState] :
         c \in {Clip([unclippedQuality |->
                          Span(st, o.unclippedQuality, o.unclippedLength),
                      unclippedLength |-> o.unclippedLength,
                      dataLength |-> o.dataLength,
                      frontClippedLength |-> o.frontClippedLength,
                      clippingState |-> o.clippingState,
                      originalFrontClipping |-> o.originalFrontClipping,
                      originalBackClipping |-> o.originalBackClipping],
                     mode, maintainOriginalClipping)}} : TRUE

\* the COMPLEMENT table on upper-case bases
COMPLEMENT(c) ==
    CASE c = "A" -> "T" [] c = "T" -> "A"
      [] c = "C" -> "G" [] c = "G" -> "C"
      [] OTHER -> "N"

\* becomeRC whose swap of the original clipping loses its temporary
Read_becomeRCLostTemp(st, k) ==
    LET o == st.obj[k]
        U == o.unclippedLength
        turned ==
            IF o.currentReadDirection = "RC"
            THEN [o EXCEPT
                    !.unclippedData =
                        IF o.upcaseForwardRead # NullPtr
                        THEN o.upcaseForwardRead ELSE o.externalData,
                    !.unclippedQuality = o.externalQuality,
                    !.currentReadDirection = "FORWARD"]
            ELSE IF o.rcData # NullPtr
            THEN [o EXCEPT
                    !.unclippedData = o.rcData,
                    !.unclippedQuality = o.rcQuality,
                    !.currentReadDirection = "RC"]
            ELSE
            LET rcData == Ptr(Local(k), o.localBufferAllocationOffset)
                rcQuality == Ptr(Local(k), o.localBufferAllocationOffset + U)
                fwd == Span(st, o.unclippedData, U)
                qual == Span(st, o.unclippedQuality, U)
            IN  [o EXCEPT
                    !.rcData = rcData,
                    !.rcQuality = rcQuality,
                    !.localBufferAllocationOffset = @ + U + U,
                    !.localBuffer =
                        WriteAt(o.localBuffer, rcData.off,
                                [i \in 1..U |-> COMPLEMENT(fwd[U - i + 1])]
                                \o [i \in 1..U |-> qual[U - i + 1]]),
                    !.unclippedData = rcData,
                    !.unclippedQuality = rcQuality,
                    !.currentReadDirection = "RC"]
        front == Wrap(Wrap(U - o.dataLength) - o.frontClippedLength)
    IN  [turned EXCEPT
           !.frontClippedLength = front,
           !.data = PtrAdd(turned.unclippedData, front),
           !.quality = PtrAdd(turned.unclippedQuality, front),
           !.originalFrontClipping = o.originalBackClipping,
           !.originalBackClipping = o.originalBackClipping,
           !.originalFrontHardClipping = o.originalBackHardClipping,
           !.originalBackHardClipping = o.originalFrontHardClipping]

\* becomeRC that switches back to the caller's bytes, upper-cased or not
Read_becomeRCToExternal(st, k) ==
    LET o == st.obj[k]
        U == o.unclippedLength
        turned ==
            IF o.currentReadDirection = "RC"
            THEN [o EXCEPT
                    !.unclippedData =
                        o.externalData,
                    !.unclippedQuality = o.externalQuality,
                    !.currentReadDirection = "FORWARD"]
            ELSE IF o.rcData # NullPtr
            THEN [o EXCEPT
                    !.unclippedData = o.rcData,
                    !.unclippedQuality = o.rcQuality,
                    !.currentReadDirection = "RC"]
            ELSE
            LET rcData == Ptr(Local(k), o.localBufferAllocationOffset)
                rcQuality == Ptr(Local(k), o.localBufferAllocationOffset + U)
                fwd == Span(st, o.unclippedData, U)
                qual == Span(st, o.unclippedQuality, U)
            IN  [o EXCEPT
                    !.rcData = rcData,
                    !.rcQuality = rcQuality,
                    !.localBufferAllocationOffset = @ + U + U,
                    !.localBuffer =
                        WriteAt(o.localBuffer, rcData.off,
                                [i \in 1..U |-> COMPLEMENT(fwd[U - i + 1])]
                                \o [i \in 1..U |-> qual[U - i + 1]]),
                    !.unclippedData = rcData,
                    !.unclippedQuality = rcQuality,
                    !.currentReadDirection = "RC"]
        front == Wrap(Wrap(U - o.dataLength) - o.frontClippedLength)
    IN  [turned EXCEPT
           !.frontClippedLength = front,
           !.data = PtrAdd(turned.unclippedData, front),
           !.quality = PtrAdd(turned.unclippedQuality, front),
           !.originalFrontClipping = o.originalBackClipping,
           !.originalBackClipping = o.originalFrontClipping,
           !.originalFrontHardClipping = o.originalBackHardClipping,
           !.originalBackHardClipping = o.originalFrontHardClipping]

\* becomeRC that leaves the front clipping where it was
Read_becomeRCKeepFront(st, k) ==
    LET o == st.obj[k]
        U == o.unclippedLength
        turned ==
            IF o.currentReadDirection = "RC"
            THEN [o EXCEPT
                    !.unclippedData =
                        IF o.upcaseForwardRead # NullPtr
                        THEN o.upcaseForwardRead ELSE o.externalData,
                    !.unclippedQuality = o.externalQuality,
                    !.currentReadDirection = "FORWARD"]
            ELSE IF o.rcData # NullPtr
            THEN [o EXCEPT
                    !.unclippedData = o.rcData,
                    !.unclippedQuality = o.rcQuality,
                    !.currentReadDirection = "RC"]
            ELSE
            LET rcData == Ptr(Local(k), o.localBufferAllocationOffset)
                rcQuality == Ptr(Local(k), o.localBufferAllocationOffset + U)
                fwd == Span(st, o.unclippedData, U)
                qual == Span(st, o.unclippedQuality, U)
            IN  [o EXCEPT
                    !.rcData = rcData,
                    !.rcQuality = rcQuality,
                    !.localBufferAllocationOffset = @ + U + U,
                    !.localBuffer =
                        WriteAt(o.localBuffer, rcData.off,
                                [i \in 1..U |-> COMPLEMENT(fwd[U - i + 1])]
                                \o [i \in 1..U |-> qual[U - i + 1]]),
                    !.unclippedData = rcData,
                    !.unclippedQuality = rcQuality,
                    !.currentReadDirection = "RC"]
        front == o.frontClippedLength
    IN  [turned EXCEPT
           !.frontClippedLength = front,
           !.data = PtrAdd(turned.unclippedData, front),
           !.quality = PtrAdd(turned.unclippedQuality, front),
           !.originalFrontClipping = o.originalBackClipping,
           !.originalBackClipping = o.originalFrontClipping,
           !.originalFrontHardClipping = o.originalBackHardClipping,
           !.originalBackHardClipping = o.originalFrontHardClipping]

\* Read::becomeRC on object k
Read_becomeRC(st, k) ==
    LET o == st.obj[k]
        U == o.unclippedLength
        turned ==
            IF o.currentReadDirection = "RC"
            THEN [o EXCEPT
                    !.unclippedData =
                        IF o.upcaseForwardRead # NullPtr
                        THEN o.upcaseForwardRead ELSE o.externalData,
                    !.unclippedQuality = o.externalQuality,
                    !.currentReadDirection = "FORWARD"]
            ELSE IF o.rcData # NullPtr
            THEN [o EXCEPT
                    !.unclippedData = o.rcData,
                    !.unclippedQuality = o.rcQuality,
                    !.currentReadDirection = "RC"]
            ELSE
            LET rcData == Ptr(Local(k), o.localBufferAllocationOffset)
                rcQuality == Ptr(Local(k), o.localBufferAllocationOffset + U)
                fwd == Span(st, o.unclippedData, U)
                qual == Span(st, o.unclippedQuality, U)
            IN  [o EXCEPT
                    !.rcData = rcData,
                    !.rcQuality = rcQuality,
                    !.localBufferAllocationOffset = @ + U + U,
                    !.localBuffer =
                        WriteAt(o.localBuffer, rcData.off,
                                [i \in 1..U |-> COMPLEMENT(fwd[U - i + 1])]
                                \o [i \in 1..U |-> qual[U - i + 1]]),
                    !.unclippedData = rcData,
                    !.unclippedQuality = rcQuality,
                    !.currentReadDirection = "RC"]
        front == Wrap(Wrap(U - o.dataLength) - o.frontClippedLength)
    IN  [turned EXCEPT
           !.frontClippedLength = front,
           !.data = PtrAdd(turned.unclippedData, front),
           !.quality = PtrAdd(turned.unclippedQuality, front),
           !.originalFrontClipping = o.originalBackClipping,
           !.originalBackClipping = o.originalFrontClipping,
           !.originalFrontHardClipping = o.originalBackHardClipping,
           !.originalBackHardClipping = o.originalFrontHardClipping]

\* Read::copyFromOtherRead: object k becomes a copy of object from
copyFromOtherRead(st, k, from) ==
    LET o == st.obj[k]
        other == st.obj[from]
        \* a pointer at the same offset of this object's localBuffer
        Reloc(p) == IF p.base = Local(from) THEN Ptr(Local(k), p.off)
                    ELSE Ptr("wild", 0)
        hasLocal == other.localBufferAllocationOffset # 0
        \* other.data < other.localBuffer
        \*   || other.data >= other.localBuffer + offset - dataLength
        external ==
            \/ other.data.base # Local(from)
            \/ other.data.off < 0
            \/ other.data.off >=
                   other.localBufferAllocationOffset - other.dataLength
    IN  [o EXCEPT
           !.inited = other.inited,
           !.frontClippedLength = other.frontClippedLength,
           !.dataLength = other.dataLength,
           !.externalData = other.externalData,
           !.externalQuality = other.externalQuality,
           !.currentReadDirection = other.currentReadDirection,
           !.unclippedLength = other.unclippedLength,
           !.localBufferAllocationOffset =
               IF hasLocal THEN other.localBufferAllocationOffset ELSE 0,
           !.localBuffer =
               IF hasLocal
               THEN WriteAt(o.localBuffer, 0,
                            Span(st, Ptr(Local(from), 0),
                                 other.localBufferAllocationOffset))
               ELSE o.localBuffer,
           !.upcaseForwardRead =
               IF hasLocal /\ other.upcaseForwardRead # NullPtr
               THEN Reloc(other.upcaseForwardRead) ELSE NullPtr,
           !.rcData =
               IF hasLocal /\ other.rcData # NullPtr
               THEN Reloc(other.rcData) ELSE NullPtr,
           !.rcQuality =
               IF hasLocal /\ other.rcData # NullPtr
               THEN Reloc(other.rcQuality) ELSE NullPtr,
           !.data = IF external THEN other.data ELSE Reloc(other.data),
           !.quality =
               IF external THEN other.quality ELSE Reloc(other.quality),
           !.unclippedData =
               IF external THEN other.unclippedData
               ELSE Reloc(other.unclippedData),
           !.unclippedQuality =
               IF external THEN other.unclippedQuality
               ELSE Reloc(other.unclippedQuality),
           !.clippingState = other.clippingState,
           !.originalFrontClipping = other.originalFrontClipping,
           !.originalBackClipping = other.originalBackClipping,
           !.originalFrontHardClipping = other.originalFrontHardClipping,
           !.originalBackHardClipping = other.originalBackHardClipping]

ReadFrame == UNCHANGED <<recs, recs1, file, file1, cuts, clipping, rd,
                         exited, gen, run>>

\* init of the first object on the caller's spans; the soft clipping
\* recorded upstream covers bases of the read
InitRead ==
    /\ ~reads.obj[1].inited
    /\ \E ofc \in 0..1, obc \in 0..1, hard \in {<<1, 0>>} :
          /\ ofc + obc <= Len(reads.ext.data)
          /\ reads' = [reads EXCEPT
                         !.obj[1] = Read_init(reads, 1, ofc, obc,
                                              hard[1], hard[2])]
    /\ ReadFrame

ClipRead(k) ==
    /\ reads.obj[k].inited
    /\ \E mode \in ClippingTypes, maintainOriginalClipping \in BOOLEAN :
          reads' = [reads EXCEPT
                      !.obj[k] = Read_clip(reads, k, mode,
                                           maintainOriginalClipping)]
    /\ ReadFrame

BecomeRC(k) ==
    /\ reads.obj[k].inited
    /\ reads' = [reads EXCEPT !.obj[k] = Read_becomeRC(reads, k)]
    /\ ReadFrame

CopyRead ==
    /\ reads.obj[1].inited
    /\ reads' = [reads EXCEPT !.obj[2] = copyFromOtherRead(reads, 2, 1)]
    /\ ReadFrame

BaseChoices == {"A", "c"}

QualityChoices == {"!", "#"}

InitReads ==
    /\ recs = <<>> /\ recs1 = <<>>
    /\ file = <<>> /\ file1 = <<>>
    /\ cuts = <<0, 0>>
    /\ clipping = "NoClipping"
    /\ rd = [i \in Parts |-> NewReader]
    /\ exited = FALSE
    /\ gen = NoGen
    /\ run = NoRun
    /\ \E d \in SeqsUpTo(BaseChoices, MaxReadLen) :
       \E q \in {x \in SeqsUpTo(QualityChoices, MaxReadLen) :
                   Len(x) = Len(d)} :
          reads = [ext |-> [data |-> d, quality |-> q],
                   obj |-> <<NewRead, NewRead>>]

NextReads ==
    \/ InitRead
    \/ \E k \in 1..2 : ClipRead(k)
    \/ \E k \in 1..2 : BecomeRC(k)
    \/ CopyRead

SpecReads == InitReads /\ [][NextReads]_vars

\* the Read objects that were initialized
Live == {k \in 1..2 : reads # NoReads /\ reads.obj[k].inited}

\* reads after object k was clipped / turned
AfterClip(st, k, mode) ==
    [st EXCEPT !.obj[k] = Read_clip(st, k, mode, FALSE)]

AfterRC(st, k) == [st EXCEPT !.obj[k] = Read_becomeRC(st, k)]

\* the fields clip works on
ClipView(o) ==
    [data |-> o.data, quality |-> o.quality, dataLength |-> o.dataLength,
     frontClippedLength |-> o.frontClippedLength,
     clippingState |-> o.clippingState]

\* C15: in every reachable state of a Read and for every mode M, clip(M)
\* followed by clip(M) leaves data, quality, dataLength, frontClippedLength
\* and clippingState as they are after the first clip(M).
C15_ClipIdempotent ==
    \A k \in Live : \A mode \in ClippingTypes :
        LET once == AfterClip(reads, k, mode)
            twice == AfterClip(once, k, mode)
        IN  ClipView(twice.obj[k]) = ClipView(once.obj[k])

\* a read that a clip has trimmed at the back
C15_TrimmedRead ==
    \E k \in Live :
        /\ reads.obj[k].clippingState = "ClipBack"
        /\ reads.obj[k].currentReadDirection = "FORWARD"
        /\ reads.obj[k].dataLength = 1
        /\ reads.obj[k].unclippedLength = 2

\* the read with its clipping reverted: the unclipped baseline
Baseline(o) ==
    [o EXCEPT !.dataLength = o.unclippedLength,
              !.frontClippedLength = 0,
              !.data = o.unclippedData,
              !.quality = o.unclippedQuality,
              !.clippingState = "NoClipping"]

\* C16: in every reachable state of a Read and for all modes A and B,
\* clip(A) followed by clip(B) gives the same data start, dataLength,
\* frontClippedLength and clippingState as clip(B) applied to the unclipped
\* baseline of that read.
C16_ClipNeverCompounds ==
    \A k \in Live : \A A \in ClippingTypes, B \in ClippingTypes :
        LET viaA == AfterClip(AfterClip(reads, k, A), k, B)
            direct == AfterClip([reads EXCEPT
                                   !.obj[k] = Baseline(reads.obj[k])], k, B)
        IN  ClipView(viaA.obj[k]) = ClipView(direct.obj[k])

AfterClipMaintain(st, k, mode) ==
    [st EXCEPT !.obj[k] = Read_clip(st, k, mode, TRUE)]

\* bases the view leaves out at the back of the unclipped read
BackClipped(o) == o.unclippedLength - o.frontClippedLength - o.dataLength

\* C17: in every reachable state of a Read, clip(mode, TRUE) leaves at least
\* originalFrontClipping bases clipped at the front when the mode clips the
\* front, and at least originalBackClipping bases clipped at the back when
\* the mode clips the back, whatever clip calls preceded it.
C17_OriginalClippingMaintained ==
    \A k \in Live : \A mode \in ClippingTypes :
        LET o == AfterClipMaintain(reads, k, mode).obj[k]
        IN  /\ mode \in {"ClipFront", "ClipFrontAndBack"}
                => o.frontClippedLength >= o.originalFrontClipping
            /\ mode \in {"ClipBack", "ClipFrontAndBack"}
                => BackClipped(o) >= o.originalBackClipping

\* the bytes of a view, when the view has a length a read can have
ViewBytes(st, p, n) ==
    IF n <= MaxReadLen THEN Span(st, p, n) ELSE <<"beyond the read">>

\* what becomeRC mirrors: orientation, unclipped and clipped bytes, lengths
\* and the original clipping fields
Facing(st, k) ==
    LET o == st.obj[k]
    IN  [currentReadDirection |-> o.currentReadDirection,
         unclippedData |-> Span(st, o.unclippedData, o.unclippedLength),
         unclippedQuality |-> Span(st, o.unclippedQuality, o.unclippedLength),
         dataPtr |-> o.data,
         qualityPtr |-> o.quality,
         data |-> ViewBytes(st, o.data, o.dataLength),
         quality |-> ViewBytes(st, o.quality, o.dataLength),
         dataLength |-> o.dataLength,
         unclippedLength |-> o.unclippedLength,
         frontClippedLength |-> o.frontClippedLength,
         originalFrontClipping |-> o.originalFrontClipping,
         originalBackClipping |-> o.originalBackClipping,
         originalFrontHardClipping |-> o.originalFrontHardClipping,
         originalBackHardClipping |-> o.originalBackHardClipping]

\* C18: from every state of a Read reached by init, clip and becomeRC,
\* becomeRC twice restores the orientation, the unclipped and clipped data
\* and quality bytes, dataLength, frontClippedLength and the original
\* front/back (hard-)clipping fields.
C18_BecomeRCInvolution ==
    1 \in Live =>
        Facing(AfterRC(AfterRC(reads, 1), 1), 1) = Facing(reads, 1)

\* a clipped read with unequal original clippings that has been turned to
\* RC and back
C18_TurnedTwice ==
    /\ 1 \in Live
    /\ reads.obj[1].currentReadDirection = "FORWARD"
    /\ reads.obj[1].rcData # NullPtr
    /\ reads.obj[1].frontClippedLength = 1
    /\ reads.obj[1].dataLength = 1
    /\ reads.obj[1].originalFrontClipping # reads.obj[1].originalBackClipping

\* C19: in every state reached by init, clip (with or without
\* maintainOriginalClipping), becomeRC and copy, a Read has
\* frontClippedLength + dataLength <= unclippedLength with dataLength not
\* underflowed, data = unclippedData + frontClippedLength (and likewise
\* quality), and so views that lie within the unclipped spans.
C19_ViewWithinUnclipped ==
    \A k \in Live :
        LET o == reads.obj[k]
        IN  /\ o.dataLength <= o.unclippedLength
            /\ o.frontClippedLength + o.dataLength <= o.unclippedLength
            /\ o.data = PtrAdd(o.unclippedData, o.frontClippedLength)
            /\ o.quality = PtrAdd(o.unclippedQuality, o.frontClippedLength)

\* clip(mode) with the default maintainOriginalClipping = false
ClipDefault(k) ==
    /\ reads.obj[k].inited
    /\ \E mode \in ClippingTypes : reads' = AfterClip(reads, k, mode)
    /\ ReadFrame

NextUpcase ==
    \/ InitRead
    \/ ClipDefault(1)
    \/ BecomeRC(1)

\* one Read under init, clip(mode) and becomeRC
SpecUpcase == InitReads /\ [][NextUpcase]_vars

UpperCased(d) == [i \in 1..Len(d) |-> TO_UPPER_CASE(d[i])]

AnyLowerCase(d) == \E i \in 1..Len(d) : IS_LOWER_CASE(d[i])

\* the forward views of the first Read show the upper-cased bases, from the
\* scratch buffer when the caller's bases had a lowercase one and from the
\* caller's memory otherwise
UpcasedViews ==
    1 \in Live =>
        LET o == reads.obj[1]
            d == reads.ext.data
            U == Len(d)
            home == IF AnyLowerCase(d) THEN Ptr(Local(1), 0)
                    ELSE Ptr("extData", 0)
        IN  /\ o.unclippedLength = U
            /\ AnyLowerCase(d) =>
                  /\ o.upcaseForwardRead = Ptr(Local(1), 0)
                  /\ Span(reads, o.upcaseForwardRead, U) = UpperCased(d)
            /\ ~AnyLowerCase(d) =>
                  /\ o.upcaseForwardRead = NullPtr
                  /\ o.rcData = NullPtr => o.localBufferAllocationOffset = 0
            /\ o.currentReadDirection = "FORWARD" =>
                  /\ o.unclippedData = home
                  /\ o.data = PtrAdd(home, o.frontClippedLength)
                  /\ o.unclippedQuality = Ptr("extQuality", 0)
                  /\ Span(reads, o.unclippedData, U) = UpperCased(d)
                  /\ Span(reads, o.data, o.dataLength)
                        = SubSeq(UpperCased(d), o.frontClippedLength + 1,
                                 o.frontClippedLength + o.dataLength)

\* C20: after init on bases with a lowercase one, data and unclippedData
\* are the uppercase transliteration in the read's scratch buffer and every
\* later forward view (after clip, after becomeRC twice) shows only
\* uppercase bases; without a lowercase base the views alias the caller's
\* memory and init leaves the scratch buffer unused; the caller's bytes are
\* never changed.
C20_UpcaseInScratchBuffer ==
    /\ []UpcasedViews
    /\ [][reads'.ext = reads.ext]_vars

\* a read with a lowercase base, clipped, turned to RC and back
C20_LowercaseReadTurnedTwice ==
    /\ 1 \in Live
    /\ AnyLowerCase(reads.ext.data)
    /\ reads.obj[1].currentReadDirection = "FORWARD"
    /\ reads.obj[1].rcData # NullPtr
    /\ reads.obj[1].frontClippedLength = 1
    /\ reads.obj[1].dataLength = 1

\* the pointers of a Read that are views of its bases and qualities
ViewPointers(o) ==
    <<o.data, o.unclippedData, o.quality, o.unclippedQuality,
      o.upcaseForwardRead, o.rcData, o.rcQuality>>

\* C21: after copying a Read, every view that in the source resided in the
\* source's scratch buffer points into the copy's own scratch buffer at the
\* same offset, every externally owned view aliases the same external
\* memory, and no pointer of the copy refers to the source's scratch buffer.
C21_CopyOwnsItsScratchViews ==
    1 \in Live =>
        LET src == ViewPointers(reads.obj[1])
            cpy == ViewPointers(copyFromOtherRead(reads, 2, 1))
        IN  \A i \in 1..Len(src) :
                /\ src[i].base = Local(1) => cpy[i] = Ptr(Local(2), src[i].off)
                /\ src[i].base # Local(1) => cpy[i] = src[i]
                /\ cpy[i].base # Local(1)

(***************************************************************************)
(* The aligner run: AlignerContext::runAlignment, its worker threads and   *)
(* the globally cached index.  runTask, which starts the worker threads    *)
(* and has their statistics merged, is modelled as the driver of the       *)
(* thread actions below.                                                   *)
(***************************************************************************)
MaxThreads == 2

\* reads one worker thread aligns at most
MaxWork == 2

\* runs of the aligner in one process
MaxRuns == 2

FileTypes ==
    {"UnknownFileType", "SAMFile", "FASTQFile", "BAMFile",
     "InterleavedFASTQFile", "CRAMFile"}

IndexDirs == {"dirA", "dirB", "-"}

\* GenomeIndex *: NULL
NoIndex == [dir |-> "NULL", serial |-> 0]

\* a thread context before runTask has set it up
\* pc is the position of the thread itself, merge that of finishThread on
\* the thread's context
NewThread ==
    [pc |-> "new", merge |-> "none", stats |-> 0, readWriter |-> 0,
     mergeBase |-> 0]

\* AlignerContext::AlignerContext: the members a run uses
NewContext ==
    [index |-> NoIndex, writerSupplier |-> "NULL", stats |-> 0,
     supplier |-> "none",
     acc |-> <<>>, writers |-> <<>>,
     thr |-> [i \in 1..MaxThreads |-> NewThread]]

\* newStats(): a fresh accumulator on the heap, owned by thread owner
\* (0: the run's aggregate)
newStats(acc, owner) ==
    Append(acc, [val |-> 0, live |-> TRUE, owner |-> owner, merges |-> 0])

\* a supplier that hands out one writer for everybody
getWriterShared(writers, owner) ==
    IF writers = <<>>
    THEN <<[owner |-> owner, users |-> {}, closes |-> 0, deleted |-> FALSE]>>
    ELSE writers

\* ReadWriterSupplier::getWriter: a fresh writer handle for thread owner
\* (0: the header writer of beginIteration)
getWriter(writers, owner) ==
    Append(writers, [owner |-> owner, users |-> {}, closes |-> 0,
                     deleted |-> FALSE])

\* readWriter->close(); delete readWriter
CloseWriter(writers, w) ==
    [writers EXCEPT ![w].closes = @ + 1, ![w].deleted = TRUE]

RunFrame == UNCHANGED <<recs, recs1, file, file1, cuts, clipping, rd, gen,
                        reads>>

\* an initialize that never trusts the cache
AlwaysReload(cached, requested) == TRUE

\* g_indexDirectory == NULL || strcmp(g_indexDirectory, indexDir) != 0
NeedsReload(cached, requested) == cached = "NULL" \/ cached # requested

\* runAlignment up to the iteration loop: a new context, the parsed options
\* and AlignerContext::initialize
Initialize ==
    /\ run.pc = "idle"
    /\ run.runs < MaxRuns
    /\ \E indexDir \in IndexDirs, numThreads \in 1..MaxThreads,
          fileType \in FileTypes, loadOk \in BOOLEAN,
          perfFile \in {"none", "opened", "failed"} :
          LET options == [indexDir |-> indexDir, numThreads |-> numThreads,
                          outputFile |-> fileType]
              fresh == [run EXCEPT !.ctx = NewContext, !.options = options,
                                   !.runs = @ + 1]
              reload == NeedsReload(run.g_indexDirectory, indexDir)
              loaded == [dir |-> indexDir, serial |-> Len(run.loads) + 1]
              perf(r) == IF r.pc # "exit" /\ perfFile = "failed"
                         THEN [r EXCEPT !.pc = "exit"] ELSE r
          IN  run' = perf(
                IF ~reload
                THEN [fresh EXCEPT !.ctx.index = run.g_index,
                                   !.pc = "initialized"]
                ELSE IF indexDir = "-"
                THEN [fresh EXCEPT !.g_index = NoIndex,
                                   !.g_indexDirectory = indexDir,
                                   !.pc = "initialized"]
                ELSE IF ~loadOk
                THEN [fresh EXCEPT !.g_index = NoIndex,
                                   !.g_indexDirectory = indexDir,
                                   !.loads = Append(@, indexDir),
                                   !.pc = "exit"]
                ELSE [fresh EXCEPT !.g_index = loaded,
                                   !.g_indexDirectory = indexDir,
                                   !.loads = Append(@, indexDir),
                                   !.ctx.index = loaded,
                                   !.pc = "initialized"])
    /\ exited' = (run'.pc = "exit")
    /\ RunFrame

\* AlignerContext::beginIteration
BeginIteration ==
    /\ run.pc = "initialized"
    /\ LET c == run.ctx
           acc1 == IF c.stats # 0
                   THEN [c.acc EXCEPT ![c.stats].live = FALSE] ELSE c.acc
           acc2 == newStats(acc1, 0)
           base == [run EXCEPT !.ctx.writerSupplier = "NULL",
                               !.ctx.acc = acc2,
                               !.ctx.stats = Len(acc2)]
           header == getWriter(c.writers, 0)
           h == Len(header)
       IN  run' =
             IF run.options.outputFile = "UnknownFileType"
             THEN [base EXCEPT !.pc = "runTask"]
             ELSE IF run.options.outputFile \in {"SAMFile", "BAMFile"}
             THEN [base EXCEPT
                     !.ctx.writerSupplier = "set",
                     !.ctx.supplier = "open",
                     !.ctx.writers =
                         CloseWriter([header EXCEPT ![h].users = {0}], h),
                     !.pc = "runTask"]
             ELSE [base EXCEPT !.pc = "exit"]
    /\ exited' = (run'.pc = "exit")
    /\ RunFrame

\* worker threads that start as soon as the context is initialized
InRunTaskOrBefore(r) == r.pc \in {"initialized", "runTask"}

\* runTask is between beginIteration and finishIteration
InRunTask(r) == r.pc = "runTask"

\* the context of thread i is set up: AlignerContext::initializeThread
InitializeThread(i) ==
    /\ InRunTask(run)
    /\ i <= run.options.numThreads
    /\ run.ctx.thr[i].pc = "new"
    /\ LET c == run.ctx
           acc1 == newStats(c.acc, i)
           writers1 == IF c.writerSupplier # "NULL"
                       THEN getWriter(c.writers, i) ELSE c.writers
       IN  run' = [run EXCEPT
                     !.ctx.acc = acc1,
                     !.ctx.writers = writers1,
                     !.ctx.thr[i] =
                         [pc |-> "initialized", merge |-> "none",
                          stats |-> Len(acc1),
                          readWriter |-> IF c.writerSupplier # "NULL"
                                         THEN Len(writers1) ELSE 0,
                          mergeBase |-> 0]]
    /\ UNCHANGED exited
    /\ RunFrame

\* AlignerContext::runThread starts in its own thread
BeginThread(i) ==
    /\ InRunTask(run)
    /\ run.ctx.thr[i].pc = "initialized"
    /\ run' = [run EXCEPT !.ctx.thr[i].pc = "running"]
    /\ UNCHANGED exited
    /\ RunFrame

\* runIterationThread aligns one read: the thread's statistics count it and
\* its writer, if any, writes it
RunIterationThread(i) ==
    /\ InRunTask(run)
    /\ run.ctx.thr[i].pc = "running"
    /\ run.ctx.thr[i].stats # 0
    /\ LET t == run.ctx.thr[i]
       IN  /\ run.ctx.acc[t.stats].val < MaxWork
           /\ run' = [run EXCEPT
                        !.ctx.acc[t.stats].val = @ + 1,
                        !.ctx.writers =
                            IF t.readWriter # 0
                            THEN [@ EXCEPT ![t.readWriter].users =
                                               @ \cup {i}]
                            ELSE @]
    /\ UNCHANGED exited
    /\ RunFrame

\* the end of AlignerContext::runThread: the writer is closed and deleted
ReturnThread(i) ==
    /\ InRunTask(run)
    /\ run.ctx.thr[i].pc = "running"
    /\ LET t == run.ctx.thr[i]
       IN  run' = [run EXCEPT
                     !.ctx.writers =
                         IF t.readWriter # 0
                         THEN CloseWriter(@, t.readWriter) ELSE @,
                     !.ctx.thr[i].pc = "returned"]
    /\ UNCHANGED exited
    /\ RunFrame

\* an add that leaves the aggregate as it was
StatsAddNothing(total, v) == total

\* Statistics::add: the counters of one accumulator added to another
StatsAdd(total, v) == total + v

\* a driver that has finishThread called for any thread that has returned
MergeUnserialized(r, i) == r.ctx.thr[i].pc = "returned"

\* runTask has finishThread called for a thread whose runThread has
\* returned, one thread at a time
MergeAllowed(r, i) ==
    /\ r.ctx.thr[i].pc = "returned"
    /\ \A j \in 1..MaxThreads : r.ctx.thr[j].merge # "merging"

\* AlignerContext::finishThread, entered: common->stats->add(stats) has
\* read the aggregate
FinishThreadBegin(i) ==
    /\ InRunTask(run)
    /\ run.ctx.thr[i].merge = "none"
    /\ run.ctx.thr[i].stats # 0
    /\ MergeAllowed(run, i)
    /\ run' = [run EXCEPT
                 !.ctx.thr[i].merge = "merging",
                 !.ctx.thr[i].mergeBase = run.ctx.acc[run.ctx.stats].val]
    /\ UNCHANGED exited
    /\ RunFrame

\* AlignerContext::finishThread, completed: the aggregate is written, the
\* thread's accumulator deleted
FinishThreadEnd(i) ==
    /\ InRunTask(run)
    /\ run.ctx.thr[i].merge = "merging"
    /\ LET t == run.ctx.thr[i]
       IN  run' = [run EXCEPT
                     !.ctx.acc =
                         [@ EXCEPT
                            ![run.ctx.stats].val =
                                StatsAdd(t.mergeBase,
                                         run.ctx.acc[t.stats].val),
                            ![t.stats].live = FALSE,
                            ![t.stats].merges = @ + 1],
                     !.ctx.thr[i].stats = 0,
                     !.ctx.thr[i].merge = "merged"]
    /\ UNCHANGED exited
    /\ RunFrame

\* runTask returns when every worker thread has finished
AllThreadsFinished(r) ==
    \A i \in 1..r.options.numThreads : r.ctx.thr[i].merge = "merged"

\* AlignerContext::finishIteration, and the return of runAlignment
FinishIteration ==
    /\ InRunTask(run)
    /\ AllThreadsFinished(run)
    /\ run' = [run EXCEPT
                 !.ctx.writerSupplier = "NULL",
                 !.ctx.supplier =
                     IF run.ctx.writerSupplier # "NULL" THEN "closed" ELSE @,
                 !.pc = "idle"]
    /\ UNCHANGED exited
    /\ RunFrame

InitRun ==
    /\ recs = <<>> /\ recs1 = <<>>
    /\ file = <<>> /\ file1 = <<>>
    /\ cuts = <<0, 0>>
    /\ clipping = "NoClipping"
    /\ rd = [i \in Parts |-> NewReader]
    /\ exited = FALSE
    /\ gen = NoGen
    /\ reads = NoReads
    /\ run = [pc |-> "idle", runs |-> 0,
              options |-> [indexDir |-> "-", numThreads |-> 1,
                           outputFile |-> "UnknownFileType"],
              g_index |-> NoIndex, g_indexDirectory |-> "NULL",
              loads |-> <<>>,
              ctx |-> NewContext]

NextRun ==
    \/ Initialize
    \/ BeginIteration
    \/ \E i \in 1..MaxThreads : InitializeThread(i)
    \/ \E i \in 1..MaxThreads : BeginThread(i)
    \/ \E i \in 1..MaxThreads : RunIterationThread(i)
    \/ \E i \in 1..MaxThreads : ReturnThread(i)
    \/ \E i \in 1..MaxThreads : FinishThreadBegin(i)
    \/ \E i \in 1..MaxThreads : FinishThreadEnd(i)
    \/ FinishIteration

SpecRun == InitRun /\ [][NextRun]_vars

Started == run # NoRun

\* the worker threads of the current run
Workers == IF Started THEN 1..run.options.numThreads ELSE {}

\* the accumulators the worker threads of this iteration were given
ThreadAccs ==
    {a \in 1..Len(run.ctx.acc) : run.ctx.acc[a].owner # 0}

RECURSIVE SumVals(_, _)
SumVals(acc, ids) ==
    IF ids = {} THEN 0
    ELSE LET a == CHOOSE x \in ids : TRUE
         IN  acc[a].val + SumVals(acc, ids \ {a})

\* C22: each worker thread's accumulator is added to the shared aggregate
\* exactly once, by finishThread, only after that thread's runThread has
\* returned, and is destroyed afterwards; once every thread has finished
\* the aggregate equals the sum of the per-thread accumulators of the
\* iteration.
C22_StatsMergedExactlyOnce ==
    Started =>
        /\ \A i \in 1..MaxThreads :
              run.ctx.thr[i].merge # "none" => run.ctx.thr[i].pc = "returned"
        /\ \A a \in ThreadAccs :
              LET t == run.ctx.thr[run.ctx.acc[a].owner]
              IN  /\ run.ctx.acc[a].merges = IF t.merge = "merged" THEN 1 ELSE 0
                  /\ run.ctx.acc[a].live <=> t.merge # "merged"
                  /\ t.merge # "merged" => t.stats = a
        /\ (run.pc \in {"runTask", "idle"} /\ run.runs > 0
               /\ AllThreadsFinished(run)) =>
              /\ Cardinality(ThreadAccs) = run.options.numThreads
              /\ run.ctx.acc[run.ctx.stats].val = SumVals(run.ctx.acc, ThreadAccs)

\* two threads that each aligned reads have both been merged
C22_TwoThreadsMerged ==
    /\ Started
    /\ run.options.numThreads = 2
    /\ AllThreadsFinished(run)
    /\ \A a \in ThreadAccs : run.ctx.acc[a].val > 0
    /\ run.ctx.acc[run.ctx.stats].val = 2 + 1

OutputConfigured(r) == r.options.outputFile # "UnknownFileType"

\* beginIteration is complete: the aggregate exists and, with an output,
\* the supplier is open and the header writer was used and closed
SetupComplete(r) ==
    /\ r.ctx.stats # 0
    /\ r.ctx.acc[r.ctx.stats].owner = 0
    /\ OutputConfigured(r) =>
          /\ r.ctx.writerSupplier # "NULL"
          /\ r.ctx.supplier = "open"
          /\ r.ctx.writers[1] = [owner |-> 0, users |-> {0}, closes |-> 1,
                                 deleted |-> TRUE]

\* C24: beginIteration completes before any worker thread is initialized or
\* run, finishIteration runs only after every worker thread has finished,
\* and an output type beginIteration does not know is fatal in the setup
\* phase, before any worker thread starts.
C24_RunIsStaged ==
    Started =>
        /\ (\E i \in 1..MaxThreads : run.ctx.thr[i].pc # "new") =>
              /\ run.pc \in {"runTask", "idle"}
              /\ run.pc = "runTask" => SetupComplete(run)
        /\ (run.pc = "idle" /\ run.runs > 0) =>
              /\ AllThreadsFinished(run)
              /\ run.ctx.writerSupplier = "NULL"
              /\ run.ctx.supplier = IF OutputConfigured(run) THEN "closed"
                                    ELSE "none"
        /\ run.ctx.supplier = "closed" => AllThreadsFinished(run)
        /\ run.options.outputFile
               \notin {"UnknownFileType", "SAMFile", "BAMFile"} =>
              /\ run.pc \in {"initialized", "exit"}
              /\ \A i \in 1..MaxThreads : run.ctx.thr[i] = NewThread
        /\ run.pc = "exit" =>
              \A i \in 1..MaxThreads : run.ctx.thr[i] = NewThread

\* a run with output and two threads has been torn down
C24_TornDownAfterTwoThreads ==
    /\ Started
    /\ run.pc = "idle"
    /\ run.options.numThreads = 2
    /\ run.ctx.supplier = "closed"
    /\ \A i \in 1..2 : run.ctx.thr[i].merge = "merged"

\* beginIteration has ended the process on an output type it does not know
C24_UnknownOutputTypeExit ==
    /\ Started
    /\ run.pc = "exit"
    /\ run.options.outputFile = "CRAMFile"
    /\ run.ctx.stats # 0

\* C25: initializeThread gives each worker thread its own fresh statistics
\* accumulator, distinct from the aggregate and from every other thread's,
\* and its own writer from the writer supplier (none without an output);
\* the thread closes and frees its writer exactly once, at the end of
\* runThread and before its statistics are merged, and no writer is used
\* by two threads.
C25_ThreadOwnsStatsAndWriter ==
    Started =>
        /\ \A i \in 1..MaxThreads :
              LET t == run.ctx.thr[i]
              IN  t.pc # "new" =>
                    /\ t.merge # "merged" =>
                          /\ t.stats # 0
                          /\ t.stats # run.ctx.stats
                          /\ run.ctx.acc[t.stats].owner = i
                          /\ \A j \in 1..MaxThreads \ {i} :
                                run.ctx.thr[j].stats # t.stats
                    /\ t.pc = "initialized" => run.ctx.acc[t.stats].val = 0
                    /\ OutputConfigured(run) <=> t.readWriter # 0
                    /\ t.readWriter # 0 =>
                          /\ run.ctx.writers[t.readWriter].owner = i
                          /\ \A j \in 1..MaxThreads \ {i} :
                                run.ctx.thr[j].readWriter # t.readWriter
                          /\ run.ctx.writers[t.readWriter].closes
                                = IF t.pc = "returned" THEN 1 ELSE 0
                          /\ t.merge # "none" =>
                                run.ctx.writers[t.readWriter].deleted
        /\ \A w \in 1..Len(run.ctx.writers) :
              /\ run.ctx.writers[w].users \subseteq {run.ctx.writers[w].owner}
              /\ run.ctx.writers[w].closes <= 1
              /\ run.ctx.writers[w].deleted <=> run.ctx.writers[w].closes = 1

\* two threads have written with their writers; one has closed its own
C25_TwoWritersInUse ==
    /\ Started
    /\ run.ctx.thr[1].readWriter # 0
    /\ run.ctx.thr[2].readWriter # 0
    /\ run.ctx.writers[run.ctx.thr[1].readWriter].users = {1}
    /\ run.ctx.writers[run.ctx.thr[2].readWriter].users = {2}
    /\ run.ctx.thr[1].pc = "returned"
    /\ run.ctx.thr[2].pc = "running"

\* initialize has run in the step from r to r2
Initialized(r, r2) == r2.runs # r.runs

\* C27: across the runs of one process, initialize loads the index from
\* disk exactly when the requested directory differs from the cached one
\* and is not "-", and otherwise reuses the cached index; after every
\* initialize the context's index is the cached index and the cached
\* directory is the requested one.
C27_IndexLoadedOnlyOnChange ==
    /\ [](run.runs > 0 =>
             /\ run.ctx.index = run.g_index
             /\ run.g_indexDirectory = run.options.indexDir
             /\ run.g_index # NoIndex => run.g_index.dir = run.options.indexDir)
    /\ [][LET d == run'.options.indexDir
              differs == run.g_indexDirectory # d
          IN  /\ Initialized(run, run') =>
                    /\ Len(run'.loads) = Len(run.loads)
                          + (IF differs /\ d # "-" THEN 1 ELSE 0)
                    /\ ~differs => run'.g_index = run.g_index
              /\ ~Initialized(run, run') =>
                    /\ run'.loads = run.loads
                    /\ run'.g_index = run.g_index
                    /\ run'.g_indexDirectory = run.g_indexDirectory]_vars

\* a second run on the directory of the first has reused the loaded index
C27_SecondRunReusedIndex ==
    /\ Started
    /\ run.runs = 2
    /\ run.loads = <<"dirA">>
    /\ run.ctx.index = [dir |-> "dirA", serial |-> 1]
    /\ run.pc = "initialized"

(***************************************************************************)
(* SNAPFile::generateFromCommandLine.  A command-line argument is the       *)
(* sequence of its pieces: "-fastq" is <<"-", "fastq">>, "r.fq.gz" is       *)
(* <<"r", ".fq", ".gz">>, "-" is <<"-">>.                                   *)
(***************************************************************************)
MaxArgs == 3

Dash == <<"-">>

ArgChoices ==
    {<<"-", "fastq">>, <<"-", "compressedFastq">>, <<"-", "sam">>,
     <<"-", "bam">>, <<"-", "pairedInterleavedFastq">>,
     <<"-", "pairedCompressedInterleavedFastq">>, <<"-", "t">>, Dash,
     <<"r", ".sam">>, <<"r", ".bam">>, <<"r", ".fq">>, <<"r", ".fastq">>,
     <<"r", ".fq", ".gz">>, <<"r", ".fastq", ".gzip">>, <<"r", ".gz">>,
     <<"r", ".fq", ".txt">>, <<"r">>}

\* a suffix test that is content with the suffix anywhere in the name
stringContains(str, suffix) ==
    \E i \in 0..(Len(str) - Len(suffix)) :
        SubSeq(str, i + 1, i + Len(suffix)) = suffix

\* util::stringEndsWith
stringEndsWith(str, suffix) ==
    /\ Len(str) >= Len(suffix)
    /\ SubSeq(str, Len(str) - Len(suffix) + 1, Len(str)) = suffix

\* SNAPFile::SNAPFile, and the resets at the head of generateFromCommandLine
NewSNAPFile ==
    [ret |-> "false", fileName |-> <<>>, secondFileName |-> <<>>,
     fileType |-> "UnknownFileType", isCompressed |-> FALSE,
     isStdio |-> FALSE, argsConsumed |-> 0]

\* the outcomes of generateFromCommandLine(args, nArgs, ..., paired,
\* isInput): ret is "true", "false", "exit" (soft_exit) or "crash"
generateFromCommandLine(args, paired, isInput) ==
    LET nArgs == Len(args)
        f0 == NewSNAPFile
        exit == {[f0 EXCEPT !.ret = "exit"]}
    IN  IF nArgs = 0 THEN {f0}
        ELSE IF args[1][1] = "-" /\ Len(args[1]) > 1
        THEN
          IF nArgs = 1 THEN {f0}
          ELSE
          LET f1 == [f0 EXCEPT !.isStdio = (args[2] = Dash)]
              named(f) == {[f EXCEPT !.fileName = args[2], !.ret = "true"]}
          IN  IF args[1] \in {<<"-", "fastq">>, <<"-", "compressedFastq">>}
              THEN IF ~isInput THEN exit
                   ELSE IF paired /\ nArgs < 3 THEN exit
                   ELSE
                   LET f2 == [f1 EXCEPT
                                !.isCompressed =
                                    (args[1] = <<"-", "compressedFastq">>),
                                !.fileType = "FASTQFile"]
                   IN  IF paired
                       THEN IF args[3] = Dash /\ f2.isStdio THEN exit
                            ELSE named([f2 EXCEPT
                                          !.secondFileName = args[3],
                                          !.isStdio = @ \/ args[3] = Dash,
                                          !.argsConsumed = 3])
                       ELSE named([f2 EXCEPT !.argsConsumed = 2])
              ELSE IF args[1] = <<"-", "sam">>
              THEN named([f1 EXCEPT !.fileType = "SAMFile",
                                    !.argsConsumed = 2])
              ELSE IF args[1] = <<"-", "bam">>
              THEN named([f1 EXCEPT !.fileType = "BAMFile",
                                    !.isCompressed = TRUE,
                                    !.argsConsumed = 2])
              ELSE IF args[1] \in
                        {<<"-", "pairedInterleavedFastq">>,
                         <<"-", "pairedCompressedInterleavedFastq">>}
              THEN IF ~paired THEN exit
                   ELSE named([f1 EXCEPT
                                 !.fileType = "InterleavedFASTQFile",
                                 !.isCompressed =
                                     (args[1] =
                                      <<"-",
                                        "pairedCompressedInterleavedFastq">>),
                                 !.argsConsumed = 2])
              ELSE {f1}
        ELSE
          LET f1 == [f0 EXCEPT !.argsConsumed = 1, !.fileName = args[1],
                               !.isStdio = (args[1] = Dash),
                               !.ret = "true"]
          IN  IF stringEndsWith(args[1], <<".sam">>)
              THEN {[f1 EXCEPT !.fileType = "SAMFile"]}
              ELSE IF stringEndsWith(args[1], <<".bam">>)
              THEN {[f1 EXCEPT !.fileType = "BAMFile",
                               !.isCompressed = TRUE]}
              ELSE IF ~isInput THEN exit
              ELSE IF \/ stringEndsWith(args[1], <<".fq">>)
                      \/ stringEndsWith(args[1], <<".fastq">>)
                      \/ stringEndsWith(args[1], <<".fq", ".gz">>)
                      \/ stringEndsWith(args[1], <<".fastq", ".gz">>)
                      \/ stringEndsWith(args[1], <<".fq", ".gzip">>)
                      \/ stringEndsWith(args[1], <<".fastq", ".gzip">>)
              THEN
                LET f2 == [f1 EXCEPT
                             !.fileType = "FASTQFile",
                             !.isCompressed =
                                 \/ stringEndsWith(args[1], <<".gz">>)
                                 \/ stringEndsWith(args[1], <<".gzip">>),
                             !.isStdio = (args[1] = Dash)]
                IN  IF ~paired THEN {f2}
                    ELSE IF nArgs < 2
                    \* args[1] is read beyond the nArgs arguments
                    THEN {[f0 EXCEPT !.ret = "crash"],
                          [f2 EXCEPT !.secondFileName = <<"?">>,
                                     !.argsConsumed = 2],
                          [f2 EXCEPT !.secondFileName = <<"?">>,
                                     !.isStdio = TRUE,
                                     !.argsConsumed = 2]}
                    ELSE IF args[2] = Dash /\ f2.isStdio THEN exit
                    ELSE {[f2 EXCEPT !.secondFileName = args[2],
                                     !.isStdio = @ \/ args[2] = Dash,
                                     !.argsConsumed = 2]}
              ELSE exit

GenerateFromCommandLine ==
    /\ gen.pc = "args"
    /\ \E snapFile \in generateFromCommandLine(gen.args, gen.paired,
                                               gen.isInput) :
          gen' = [gen EXCEPT !.pc = "generated", !.snapFile = snapFile]
    /\ exited' = (gen'.snapFile.ret = "exit")
    /\ UNCHANGED <<recs, recs1, file, file1, cuts, clipping, rd, reads, run>>

InitArgs ==
    /\ recs = <<>> /\ recs1 = <<>>
    /\ file = <<>> /\ file1 = <<>>
    /\ cuts = <<0, 0>>
    /\ clipping = "NoClipping"
    /\ rd = [i \in Parts |-> NewReader]
    /\ exited = FALSE
    /\ reads = NoReads
    /\ run = NoRun
    /\ \E args \in SeqsUpTo(ArgChoices, MaxArgs),
          paired \in BOOLEAN, isInput \in BOOLEAN :
          gen = [pc |-> "args", args |-> args, paired |-> paired,
                 isInput |-> isInput, snapFile |-> NewSNAPFile]

NextArgs == GenerateFromCommandLine

SpecArgs == InitArgs /\ [][NextArgs]_vars

\* the argument starts with '-' and is longer: a flag, not a file name
IsFlag(a) == a[1] = "-" /\ Len(a) > 1

\* the file type a type flag names
TypeOfFlag(a) ==
    CASE a \in {<<"-", "fastq">>, <<"-", "compressedFastq">>} -> "FASTQFile"
      [] a = <<"-", "sam">> -> "SAMFile"
      [] a = <<"-", "bam">> -> "BAMFile"
      [] a \in {<<"-", "pairedInterleavedFastq">>,
                <<"-", "pairedCompressedInterleavedFastq">>}
            -> "InterleavedFASTQFile"
      [] OTHER -> "UnknownFileType"

\* the file type the extension of a file name stands for
TypeOfName(a, isInput) ==
    LET last == a[Len(a)]
        inner == IF Len(a) > 1 THEN a[Len(a) - 1] ELSE ""
    IN  IF last = ".sam" THEN "SAMFile"
        ELSE IF last = ".bam" THEN "BAMFile"
        ELSE IF isInput /\ (\/ last \in {".fq", ".fastq"}
                            \/ /\ last \in {".gz", ".gzip"}
                               /\ inner \in {".fq", ".fastq"})
        THEN "FASTQFile"
        ELSE "UnknownFileType"

TrailingRun(q) ==
    CHOOSE n \in 0..Len(q) :
        /\ \A k \in (Len(q) - n + 1)..Len(q) : q[k] = "#"
        /\ n = Len(q) \/ q[Len(q) - n] # "#"

\* the length of the maximal run of '#' at the start of q
LeadingRun(q) ==
    CHOOSE n \in 0..Len(q) :
        /\ \A k \in 1..n : q[k] = "#"
        /\ n = Len(q) \/ q[n + 1] # "#"

\* the first Read is as init left it: forward, unclipped, never turned
FreshForward ==
    /\ 1 \in Live
    /\ reads.obj[1].currentReadDirection = "FORWARD"
    /\ reads.obj[1].rcData = NullPtr
    /\ reads.obj[1].clippingState = "NoClipping"
    /\ reads.obj[1].dataLength = reads.obj[1].unclippedLength
    /\ reads.obj[1].frontClippedLength = 0

\* C28: on a freshly initialized forward read clip(M) removes exactly the
\* maximal trailing run of '#' qualities for ClipBack and ClipFrontAndBack,
\* then exactly the maximal leading run of '#' among the remaining bases
\* for ClipFront and ClipFrontAndBack, and nothing for NoClipping; a read
\* whose quality is all '#' has dataLength 0 after back-clipping.
C28_ClipRemovesMaximalRuns ==
    FreshForward =>
        \A M \in ClippingTypes :
            LET q == reads.ext.quality
                o == reads.obj[1]
                c == AfterClip(reads, 1, M).obj[1]
                t == IF M \in {"ClipBack", "ClipFrontAndBack"}
                     THEN TrailingRun(q) ELSE 0
                l == IF M \in {"ClipFront", "ClipFrontAndBack"}
                     THEN LeadingRun(SubSeq(q, 1, Len(q) - t)) ELSE 0
            IN  /\ c.dataLength = Len(q) - t - l
                /\ c.frontClippedLength = l
                /\ c.data = PtrAdd(o.unclippedData, l)
                /\ c.quality = PtrAdd(o.unclippedQuality, l)
                /\ c.unclippedLength = Len(q)
                /\ c.clippingState = M
                /\ Span(reads, c.quality, c.dataLength)
                      = SubSeq(q, l + 1, Len(q) - t)
                /\ ((\A k \in 1..Len(q) : q[k] = "#")
                        /\ M \in {"ClipBack", "ClipFrontAndBack"})
                      => c.dataLength = 0

\* a read whose two qualities are '#' was clipped at the back to nothing
C28_AllLowQualityClipped ==
    /\ 1 \in Live
    /\ reads.ext.quality = <<"#", "#">>
    /\ reads.obj[1].currentReadDirection = "FORWARD"
    /\ reads.obj[1].rcData = NullPtr
    /\ reads.obj[1].clippingState = "ClipBack"
    /\ reads.obj[1].dataLength = 0
    /\ reads.obj[1].frontClippedLength = 0

ReverseComplement(d) ==
    [i \in 1..Len(d) |-> COMPLEMENT(d[Len(d) - i + 1])]

Reversed(q) == [i \in 1..Len(q) |-> q[Len(q) - i + 1]]

\* C29: one becomeRC turns the view of a Read reached by init, clip and
\* becomeRC into its mirror image: the unclipped data becomes its reverse
\* complement and the unclipped quality is reversed, dataLength is
\* unchanged, frontClippedLength becomes the number of bases that were
\* clipped at the back, the visible bases are the same bases seen from the
\* other strand, and the original front/back (hard-)clipping fields are
\* swapped; the reverse-complement strings are computed by the first call
\* after init and reused unchanged afterwards.
C29_BecomeRCMirrorsView ==
    1 \in Live =>
        LET o == reads.obj[1]
            U == o.unclippedLength
            after == AfterRC(reads, 1)
            c == after.obj[1]
            D == Span(reads, o.unclippedData, U)
            Q == Span(reads, o.unclippedQuality, U)
        IN  /\ Span(after, c.unclippedData, U) = ReverseComplement(D)
            /\ Span(after, c.unclippedQuality, U) = Reversed(Q)
            /\ c.dataLength = o.dataLength
            /\ c.unclippedLength = U
            /\ c.frontClippedLength
                  = Wrap(Wrap(U - o.frontClippedLength) - o.dataLength)
            /\ c.data = PtrAdd(c.unclippedData, c.frontClippedLength)
            /\ c.quality = PtrAdd(c.unclippedQuality, c.frontClippedLength)
            /\ (o.dataLength <= U
                   /\ o.frontClippedLength + o.dataLength <= U) =>
                  /\ c.frontClippedLength
                        = U - o.frontClippedLength - o.dataLength
                  /\ Span(after, c.data, c.dataLength)
                        = ReverseComplement(Span(reads, o.data, o.dataLength))
                  /\ Span(after, c.quality, c.dataLength)
                        = Reversed(Span(reads, o.quality, o.dataLength))
            /\ c.originalFrontClipping = o.originalBackClipping
            /\ c.originalBackClipping = o.originalFrontClipping
            /\ c.originalFrontHardClipping = o.originalBackHardClipping
            /\ c.originalBackHardClipping = o.originalFrontHardClipping
            /\ c.currentReadDirection # o.currentReadDirection
            /\ o.rcData # NullPtr =>
                  /\ c.localBuffer = o.localBuffer
                  /\ c.rcData = o.rcData /\ c.rcQuality = o.rcQuality
            /\ o.rcData = NullPtr =>
                  /\ c.rcData = Ptr(Local(1), o.localBufferAllocationOffset)
                  /\ Span(after, c.rcData, U) = ReverseComplement(D)
                  /\ Span(after, c.rcQuality, U) = Reversed(Q)

\* a read clipped at the back was turned: the clipped base is at the front
C29_BackClippedReadTurned ==
    /\ 1 \in Live
    /\ reads.obj[1].currentReadDirection = "RC"
    /\ reads.obj[1].clippingState = "ClipBack"
    /\ reads.obj[1].unclippedLength = 2
    /\ reads.obj[1].frontClippedLength = 1
    /\ reads.obj[1].dataLength = 1

(***************************************************************************)
(* A FASTQ file that may end in a lone ^Z, read by one reader.  The        *)
(* consumer stops asking one call after the file's records are used up.    *)
(***************************************************************************)
InitCtrlZ ==
    /\ recs \in SeqsUpTo(FastqRecTypes, MaxRecs)
    /\ recs1 = <<>>
    /\ \E tail \in {<<>>, <<CtrlZ>>} : file = FileOf(recs) \o tail
    /\ file1 = <<>>
    /\ cuts = <<0, Len(file)>>
    /\ clipping = "NoClipping"
    /\ rd = [i \in Parts |-> NewReader]
    /\ exited = FALSE
    /\ gen = NoGen
    /\ reads = NoReads
    /\ run = NoRun

NextCtrlZ ==
    \/ Create(1)
    \/ /\ Len(rd[1].out) <= Len(recs)
       /\ GetNextRead(1)

SpecCtrlZ == InitCtrlZ /\ [][NextCtrlZ]_vars

\* C30: when the only input left for a reader is a single ^Z byte at the
\* end of the file, getNextRead returns false and yields no read.
C30_CtrlZIsEndOfInput ==
    \A i \in Parts :
        (/\ rd[i].lastRet # "none"
         /\ rd[i].before = Len(file) - 1
         /\ At(file, rd[i].before) = CtrlZ) =>
            /\ rd[i].lastRet = "false"
            /\ Len(rd[i].out) = rd[i].nBefore


(***************************************************************************)
(* Progress of the sequential reader.                                      *)
(***************************************************************************)
\* C31: a getNextRead that returns true has parsed a new record and moved
\* the cursor strictly forward, and has handed the consumer one more read.
C31_TrueCallAdvancesCursor ==
    \A i \in Parts :
        rd[i].lastRet = "true" =>
            /\ rd[i].d.cursor > rd[i].before
            /\ Len(rd[i].out) = rd[i].nBefore + 1


(***************************************************************************)
(* Where boundary recovery leaves the cursor.                              *)
(***************************************************************************)
\* C32: when boundary recovery succeeds, the cursor is on the first byte of
\* a line of the file (the start of the file or the byte after a newline),
\* inside the valid bytes of the buffer, and that byte is '@'.
C32_RecoveryLandsOnLineStart ==
    \A i \in Parts :
        (JustRecovered(i) /\ rd[i].skip = "found") =>
            /\ cuts[i] <= rd[i].d.cursor
            /\ rd[i].d.cursor < Len(file)
            /\ At(file, rd[i].d.cursor) = "@"
            /\ \/ rd[i].d.cursor = 0
               \/ At(file, rd[i].d.cursor - 1) = NL


(***************************************************************************)
(* Two FASTQ files read by range-split PairedFASTQReaders.                 *)
(***************************************************************************)
\* the two files have the same byte length and the same number of records
EqualSizedFiles == Len(file) = Len(file1) /\ Len(recs) = Len(recs1)

\* the ordinals of the records of rs that begin inside partition i
Owned(rs, i) ==
    {k \in 1..Len(rs) : cuts[i] <= StartOf(rs, k) /\ StartOf(rs, k) < cuts[i + 1]}

\* partition i would pair records of different ordinals
PairsDifferentOrdinals(i) == Owned(recs, i) # Owned(recs1, i)

\* the last call of reader i returned the k-th record of each file
YieldedSameOrdinal(i) ==
    LET r == rd[i]
        k == RecordAt(recs, r.before)
        k1 == RecordAt(recs1, r.before1)
    IN  /\ r.before < Len(file) /\ r.before1 < Len(file1)
        /\ k = k1
        /\ r.before = StartOf(recs, k)
        /\ r.before1 = StartOf(recs1, k1)
        /\ Matches(r.out[Len(r.out)][1], recs[k])
        /\ Matches(r.out[Len(r.out)][2], recs1[k1])

\* C33: for two files of equal byte length with records in matching
\* ordinal order, cut at the same offsets, every pair a partition yields is
\* the k-th record of file 0 with the k-th record of file 1; a partition
\* that would pair different ordinals does not end normally; and when no
\* partition would, the run does not end fatally and, once it is over, the
\* partitions have yielded every k exactly once.
C33_RangeSplitPairsSameOrdinal ==
    EqualSizedFiles =>
        /\ \A i \in Parts :
               /\ rd[i].lastRet = "true" => YieldedSameOrdinal(i)
               /\ PairsDifferentOrdinals(i) => rd[i].pc # "done"
        /\ (\A i \in Parts : ~PairsDifferentOrdinals(i)) =>
               /\ ~exited
               /\ RunOver =>
                      /\ Len(ConcatPairs(1)) = Len(recs)
                      /\ \A n \in 1..Len(recs) :
                             /\ Matches(ConcatPairs(1)[n][1], recs[n])
                             /\ Matches(ConcatPairs(1)[n][2], recs1[n])


(***************************************************************************)
(* clip and becomeRC in either order.                                      *)
(***************************************************************************)
\* the visible bases of object k: orientation, lengths and the bytes of the
\* clipped view
VisibleBases(st, k) ==
    LET o == st.obj[k]
    IN  [currentReadDirection |-> o.currentReadDirection,
         dataLength |-> o.dataLength,
         frontClippedLength |-> o.frontClippedLength,
         data |-> ViewBytes(st, o.data, o.dataLength),
         quality |-> ViewBytes(st, o.quality, o.dataLength)]

\* C34: for a freshly initialized read and every mode M, clip(M) followed
\* by becomeRC leaves the same orientation, dataLength, frontClippedLength
\* and data and quality bytes as becomeRC followed by clip(M).
C34_ClipAndBecomeRCCommute ==
    FreshForward =>
        \A M \in ClippingTypes :
            VisibleBases(AfterRC(AfterClip(reads, 1, M), 1), 1)
              = VisibleBases(AfterClip(AfterRC(reads, 1), 1, M), 1)


(***************************************************************************)
(* What a copy of a Read presents.                                         *)
(***************************************************************************)
\* reads after object 2 was made a copy of object 1
AfterCopy(st) == [st EXCEPT !.obj[2] = copyFromOtherRead(st, 2, 1)]

\* what object k presents to its user: the bytes of the clipped and of the
\* unclipped views, the lengths, the orientation and the clipping state
Presented(st, k) ==
    LET o == st.obj[k]
    IN  [unclippedData |-> ViewBytes(st, o.unclippedData, o.unclippedLength),
         unclippedQuality |->
             ViewBytes(st, o.unclippedQuality, o.unclippedLength),
         data |-> ViewBytes(st, o.data, o.dataLength),
         quality |-> ViewBytes(st, o.quality, o.dataLength),
         dataLength |-> o.dataLength,
         unclippedLength |-> o.unclippedLength,
         frontClippedLength |-> o.frontClippedLength,
         currentReadDirection |-> o.currentReadDirection,
         clippingState |-> o.clippingState]

\* C35: a copy of a Read made in any reachable state of the source presents
\* the same data and quality bytes for the clipped and the unclipped views
\* and the same dataLength, unclippedLength, frontClippedLength, orientation
\* and clipping state as the source.
C35_CopyPresentsTheSameRead ==
    1 \in Live =>
        Presented(AfterCopy(reads), 2) = Presented(AfterCopy(reads), 1)


(***************************************************************************)
(* A Read object that the reader reuses: init is called again with the     *)
(* spans of the next record.                                               *)
(***************************************************************************)
\* the caller's memory now holds the record d, q
WithRecord(st, d, q) == [st EXCEPT !.ext = [data |-> d, quality |-> q]]

\* reads after the five-argument init of the first object on the caller's
\* spans: no original clipping is recorded
AfterInit(st) == [st EXCEPT !.obj[1] = Read_init(st, 1, 0, 0, 0, 0)]

\* the records a Read is initialized with
ReadRecords ==
    {dq \in SeqsUpTo(BaseChoices, MaxReadLen)
              \X SeqsUpTo(QualityChoices, MaxReadLen) :
        Len(dq[1]) = Len(dq[2])}

\* the reader parses the next record into the same Read object
ReinitRead ==
    /\ reads.obj[1].inited
    /\ \E dq \in ReadRecords :
          reads' = AfterInit(WithRecord(reads, dq[1], dq[2]))
    /\ ReadFrame

NextReinit ==
    \/ InitRead
    \/ ClipDefault(1)
    \/ BecomeRC(1)
    \/ ReinitRead

SpecReinit == InitReads /\ [][NextReinit]_vars

\* what init leaves of object o for the record d, apart from the scratch
\* buffer
InitializedFor(st, d, q) ==
    \A o \in {st.obj[1]}, t \in {AfterRC(st, 1)} :
        /\ o.currentReadDirection = "FORWARD"
        /\ o.clippingState = "NoClipping"
        /\ o.frontClippedLength = 0
        /\ o.dataLength = Len(d) /\ o.unclippedLength = Len(d)
        /\ o.rcData = NullPtr /\ o.rcQuality = NullPtr
        /\ Span(st, o.unclippedData, Len(d)) = UpperCased(d)
        /\ Span(st, o.unclippedQuality, Len(d)) = q
        \* the first becomeRC writes the reverse complement of the new
        \* record behind what the scratch buffer holds
        /\ t.obj[1].rcData = Ptr(Local(1), o.localBufferAllocationOffset)
        /\ Span(t, t.obj[1].unclippedData, Len(d))
             = ReverseComplement(UpperCased(d))
        /\ Span(t, t.obj[1].unclippedQuality, Len(d)) = Reversed(q)

\* C36, as stated: in every state of a Read object that was used for an
\* earlier record, init for any record leaves it forward, unclipped, with
\* an empty scratch buffer and no cached reverse complement, and the first
\* becomeRC gives the reverse complement of the new record.
C36_ReinitLeavesEmptyScratchBuffer ==
    1 \in Live =>
        \A dq \in ReadRecords :
            \A st \in {AfterInit(WithRecord(reads, dq[1], dq[2]))} :
                /\ InitializedFor(st, dq[1], dq[2])
                /\ st.obj[1].localBufferAllocationOffset = 0
                /\ st.obj[1].upcaseForwardRead = NullPtr

\* C36, amended: the same, but the scratch buffer is empty only when the
\* new record has no lowercase base; otherwise it holds the upper-cased
\* bases of the new record and nothing else.
C36_ReinitLeavesNoDerivedState ==
    1 \in Live =>
        \A dq \in ReadRecords :
            \A st \in {AfterInit(WithRecord(reads, dq[1], dq[2]))} :
            \A o \in {st.obj[1]} :
                /\ InitializedFor(st, dq[1], dq[2])
                /\ IF AnyLowerCase(dq[1])
                   THEN /\ o.localBufferAllocationOffset = Len(dq[1])
                        /\ o.upcaseForwardRead = Ptr(Local(1), 0)
                        /\ Span(st, o.upcaseForwardRead, Len(dq[1]))
                             = UpperCased(dq[1])
                   ELSE /\ o.localBufferAllocationOffset = 0
                        /\ o.upcaseForwardRead = NullPtr

\* the reader has parsed a record without lowercase bases into a Read
\* whose scratch buffer still holds the bytes of an earlier record, and the
\* read was turned since
C36_ReusedReadTurned ==
    /\ 1 \in Live
    /\ ~AnyLowerCase(reads.ext.data)
    /\ Len(reads.ext.data) = MaxReadLen
    /\ reads.obj[1].currentReadDirection = "RC"
    /\ reads.obj[1].rcData = Ptr(Local(1), 0)
    /\ Len(reads.obj[1].localBuffer) > 2 * MaxReadLen


(***************************************************************************)
(* The arguments generateFromCommandLine consumes.                         *)
(***************************************************************************)
\* C37: when generateFromCommandLine returns true, the number of arguments
\* it reports as consumed is between 1 and nArgs and fileName and
\* secondFileName, where set, are among the nArgs arguments; when it
\* returns false it reports 0 arguments consumed.
C37_ConsumesOnlyGivenArguments ==
    gen.pc = "generated" =>
        LET f == gen.snapFile
            a == gen.args
            given == {a[i] : i \in 1..Len(a)}
        IN  /\ f.ret = "true" =>
                  /\ f.argsConsumed >= 1 /\ f.argsConsumed <= Len(a)
                  /\ f.fileName \in given
                  /\ f.secondFileName \in given \cup {<<>>}
            /\ f.ret = "false" => f.argsConsumed = 0


(***************************************************************************)
(* The amount of the file a queue-based reader is created for.             *)
(***************************************************************************)
\* C38: when the single-end or the interleaved generator has created a
\* queue-based reader, the amount of file to process it passed is 0 when
\* the input is the standard stream and the file's byte length when it is
\* a (compressed) file on disk.
C38_QueueReaderAmount ==
    (/\ gen.pc \in {"returned", "exited"}
     /\ gen.kind \in {"single", "interleaved"}
     /\ gen.strategy = "queue") =>
        gen.amount = IF gen.stdin0 THEN 0 ELSE gen.size0

=============================================================================
